---- MODULE Spec2Model ----
(***************************************************************************)
(* A model of the flat state snapshot subsystem:                           *)
(*   - the scoped journal (sparseJournal / scopedJournal) over a StateDB,  *)
(*   - the diff layer stack (diffLayer over a disk layer),                 *)
(*   - the snapshot generator (diskLayer.generate / generateRange).        *)
(* Each subsystem has its own specification over its own variables; the    *)
(* variables of the other subsystems are held at their initial values.     *)
(***************************************************************************)
EXTENDS Integers, Sequences, FiniteSets, TLC

VARIABLES
    s,          \* *StateDB: stateObjects, refund, logs, logSize, accessList, transientStorage
    j,          \* *sparseJournal: entries, dirties
    jpanic,     \* "" while the journal's goroutine runs, else the panic that ended it
    jlast,      \* history: the last journal operation and what it did
    saved,      \* history: the StateDB as it was when each live scope was opened
    jops,       \* history: number of operations applied so far
    layers,     \* the diff layers ever created, by handle 1..Len(layers); handle 0 is the disk layer
    accMaps,    \* heap of account maps (map[common.Hash][]byte), by reference
    stoMaps,    \* heap of outer storage maps (account hash -> reference of the inner map, 0 = nil)
    slotMaps,   \* heap of inner storage maps (map[common.Hash][]byte), by reference
    dpanic,     \* "" while the process runs, else the panic that ended it
    dlast,      \* history: the last diff layer operation and the handle it returned
    fl,         \* the goroutines calling flatten: where each is in its call
    flog,       \* history: the parents flattened into so far, in order
    trie,       \* the state trie at dl.root: account hash -> account, each with its storage trie
    triedb,     \* dl.triedb: whether it holds the state trie (account) and the storage tries
    diskdb,     \* dl.diskdb: the flat account and storage entries
    journalGen, \* the SnapshotGenerator record of dl.diskdb: done, marker
    batch,      \* the generator's write batch
    genMarker,  \* dl.genMarker
    genPending, \* dl.genPending: "open" or "closed"
    genAbort,   \* dl.genAbort: "idle", "sending" (a requester waits in its send) or
                \* "waiting" (the generator took the request, the requester waits for the reply)
    gen,        \* the generate goroutine: where it is and its local variables
    flat0,      \* history: dl.diskdb when generation started
    abortLog,   \* history: the markers persisted by the aborts so far
    ik,         \* history: the last call of increaseKey: argument, result, the key afterwards
    bcode,      \* codeBitmap: code, the bytecode analysed
    bvec,       \* codeBitmap: bits, the bit vector
    bpc,        \* codeBitmapInternal: pc
    bstat,      \* codeBitmap: "idle", "loop", "returned" or "panicked"
    bpanic      \* "" while codeBitmap runs, else the panic that ended it

journalVars == <<s, j, jpanic, jlast, saved, jops>>

diffVars == <<layers, accMaps, stoMaps, slotMaps, dpanic, dlast, fl, flog>>

genVars == <<trie, triedb, diskdb, journalGen, batch, genMarker, genPending, genAbort, gen, flat0, abortLog>>

fnVars == <<ik, bcode, bvec, bpc, bstat, bpanic>>

vars == <<s, j, jpanic, jlast, saved, jops, layers, accMaps, stoMaps, slotMaps, dpanic, dlast,
          fl, flog,
          trie, triedb, diskdb, journalGen, batch, genMarker, genPending, genAbort, gen, flat0,
          abortLog, ik, bcode, bvec, bpc, bstat, bpanic>>

(***************************************************************************)
(* Generic helpers on finite maps (functions with a finite domain).        *)
(***************************************************************************)
EmptyMap == <<>>

Has(m, k) == k \in DOMAIN m

Put(m, k, v) == [x \in (DOMAIN m) \cup {k} |-> IF x = k THEN v ELSE m[x]]

Del(m, k) == [x \in (DOMAIN m) \ {k} |-> m[x]]

Last(q) == q[Len(q)]

Front(q) == SubSeq(q, 1, Len(q) - 1)

(***************************************************************************)
(*                          THE SCOPED JOURNAL                             *)
(***************************************************************************)

\* Bounds of the journal model.
MaxDepth == 3
MaxOps == 5
MaxLogs == 2
MaxRefund == 2

Addrs == {"a1", "a2", "ripemd"}
ripemd == "ripemd"
Keys == {"k1"}
Vals == 0..2
TxHashes == {"t1"}
EmptyCodeHash == "empty"
CodeHashes == {"empty", "c1"}

\* A state object: the journalled account fields plus its storage.
NewObject == [nonce |-> 0, balance |-> 0, codeHash |-> EmptyCodeHash,
              selfDestructed |-> FALSE, storage |-> [k \in Keys |-> 0]]

\* The StateDB before any transaction ran: a1 and ripemd are accounts loaded
\* from the trie, a2 does not exist.
InitStateDB ==
    [stateObjects |-> [a \in {"a1", "ripemd"} |-> NewObject],
     refund |-> 0,
     logs |-> EmptyMap,
     logSize |-> 0,
     accessAddrs |-> {},
     accessSlots |-> {},
     transientStorage |-> [p \in Addrs \X Keys |-> 0]]

\* newScopedJournal: only refund is set; accountChanges, storageChanges and
\* tStorageChanges are nil maps, logs and the access-list slices are nil.
newScopedJournal ==
    [accountChanges |-> [nil |-> TRUE, m |-> EmptyMap],
     refund |-> -1,
     logs |-> <<>>,
     accessListAddresses |-> <<>>,
     accessListAddrSlots |-> <<>>,
     storageChanges |-> EmptyMap,
     tStorageChanges |-> EmptyMap]

\* newSparseJournal
newSparseJournal == [entries |-> <<>>, dirties |-> EmptyMap]

\* The *types.StateAccount handed to the account recorders, with the
\* destructed flag: the object's current fields.
Tombstone == [tomb |-> TRUE, nonce |-> 0, balance |-> 0, codeHash |-> "nil", destructed |-> FALSE]

\* scopedJournal.JournalRefund
ScopedJournalRefund(sc, prev) ==
    IF sc.refund = -1 THEN [sc EXCEPT !.refund = prev] ELSE sc

\* scopedJournal.journalAccountChange: the result scope, whether the change
\* was recorded, and the panic raised by a write to the nil accountChanges map.
\* account = Tombstone stands for a nil *types.StateAccount (a creation).
ScopedJournalAccountChange(sc, address, account, destructed) ==
    IF Has(sc.accountChanges.m, address)
    THEN [sc |-> sc, recorded |-> FALSE, panic |-> ""]
    ELSE IF sc.accountChanges.nil
         THEN [sc |-> sc, recorded |-> FALSE, panic |-> "assignment to entry in nil map"]
         ELSE LET ja == IF account.tomb THEN Tombstone
                        ELSE [tomb |-> FALSE, nonce |-> account.nonce, balance |-> account.balance,
                              codeHash |-> IF account.codeHash = EmptyCodeHash THEN "nil" ELSE account.codeHash,
                              destructed |-> destructed]
              IN [sc |-> [sc EXCEPT !.accountChanges.m = Put(@, address, ja)],
                  recorded |-> TRUE, panic |-> ""]

\* scopedJournal.journalLog
ScopedJournalLog(sc, txHash) == [sc EXCEPT !.logs = Append(@, txHash)]

\* scopedJournal.journalAccessListAddAccount
ScopedJournalAccessListAddAccount(sc, addr) ==
    [sc EXCEPT !.accessListAddresses = Append(@, addr)]

\* scopedJournal.journalAccessListAddSlot
ScopedJournalAccessListAddSlot(sc, addr, slot) ==
    [sc EXCEPT !.accessListAddrSlots = Append(@, <<addr, slot>>)]

\* A faulty journalSetState that overwrites the previous value it holds
ScopedJournalSetStateOverwrite(sc, addr, key, prev) ==
    [sc EXCEPT !.storageChanges = Put(@, <<addr, key>>, prev)]

\* scopedJournal.journalSetState: the two-level map addr -> key -> prev is
\* kept as one map on the pair; a previous value is never overwritten.
ScopedJournalSetState(sc, addr, key, prev) ==
    IF Has(sc.storageChanges, <<addr, key>>) THEN sc
    ELSE [sc EXCEPT !.storageChanges = Put(@, <<addr, key>>, prev)]

\* scopedJournal.journalSetTransientState
ScopedJournalSetTransientState(sc, addr, key, prev) ==
    IF Has(sc.tStorageChanges, <<addr, key>>) THEN sc
    ELSE [sc EXCEPT !.tStorageChanges = Put(@, <<addr, key>>, prev)]

(***************************************************************************)
(* scopedJournal.revert.  A revert context c holds the StateDB, the        *)
(* dirties map and the panic (if any) that stopped the revert.             *)
(***************************************************************************)
SeqOfSet(S) ==
    LET RECURSIVE Build(_)
        Build(T) == IF T = {} THEN <<>>
                    ELSE LET x == CHOOSE y \in T : TRUE IN <<x>> \o Build(T \ {x})
    IN Build(S)

\* Revert refund
RevertRefund(sc, c) ==
    IF sc.refund # -1 THEN [c EXCEPT !.s.refund = sc.refund] ELSE c

\* Revert one journalled account (the body of the loop over accountChanges)
RevertAccount(addr, data, c) ==
    IF data.tomb
    THEN [c EXCEPT !.s.stateObjects = Del(@, addr)]
    ELSE IF ~Has(c.s.stateObjects, addr)
         THEN [c EXCEPT !.panic = "nil pointer dereference"]
         ELSE LET obj == c.s.stateObjects[addr]
                  obj2 == [obj EXCEPT !.nonce = data.nonce,
                                      !.codeHash = IF data.codeHash = "nil" THEN EmptyCodeHash
                                                   ELSE data.codeHash,
                                      !.balance = data.balance,
                                      !.selfDestructed = data.destructed]
                  n == (IF Has(c.dirties, addr) THEN c.dirties[addr] ELSE 0) - 1
              IN [c EXCEPT !.s.stateObjects = Put(@, addr, obj2),
                           !.dirties = IF n = 0 THEN Del(@, addr) ELSE Put(@, addr, n)]

\* Revert changes to accounts
RevertAccounts(sc, c) ==
    LET RECURSIVE Loop(_, _)
        Loop(q, cc) == IF q = <<>> \/ cc.panic # "" THEN cc
                       ELSE Loop(Tail(q), RevertAccount(Head(q), sc.accountChanges.m[Head(q)], cc))
    IN Loop(SeqOfSet(DOMAIN sc.accountChanges.m), c)

\* Revert logs
RevertLogs(sc, c) ==
    LET RECURSIVE Loop(_, _)
        Loop(q, cc) ==
            IF q = <<>> \/ cc.panic # "" THEN cc
            ELSE LET txhash == Head(q)
                     logs == IF Has(cc.s.logs, txhash) THEN cc.s.logs[txhash] ELSE <<>>
                 IN IF Len(logs) = 1
                    THEN Loop(Tail(q), [cc EXCEPT !.s.logs = Del(@, txhash),
                                                  !.s.logSize = @ - 1])
                    ELSE IF Len(logs) = 0
                    THEN [cc EXCEPT !.panic = "slice bounds out of range"]
                    ELSE Loop(Tail(q), [cc EXCEPT !.s.logs = Put(@, txhash, Front(logs)),
                                                  !.s.logSize = @ - 1])
    IN Loop(sc.logs, c)

\* Revert access list additions: slots first, then addresses
RevertAccessList(sc, c) ==
    LET slots == {sc.accessListAddrSlots[i] : i \in 1..Len(sc.accessListAddrSlots)}
        addrs == {sc.accessListAddresses[i] : i \in 1..Len(sc.accessListAddresses)}
    IN [c EXCEPT !.s.accessSlots = @ \ slots, !.s.accessAddrs = @ \ addrs]

\* Revert storage changes
RevertStorage(sc, c) ==
    LET RECURSIVE Loop(_, _)
        Loop(q, cc) ==
            IF q = <<>> \/ cc.panic # "" THEN cc
            ELSE LET addr == Head(q)[1]
                     key == Head(q)[2]
                 IN IF ~Has(cc.s.stateObjects, addr)
                    THEN [cc EXCEPT !.panic = "nil pointer dereference"]
                    ELSE Loop(Tail(q), [cc EXCEPT !.s.stateObjects[addr].storage[key] =
                                                      sc.storageChanges[Head(q)]])
    IN Loop(SeqOfSet(DOMAIN sc.storageChanges), c)

\* Revert t-store changes
RevertTransient(sc, c) ==
    [c EXCEPT !.s.transientStorage =
        [p \in DOMAIN @ |-> IF Has(sc.tStorageChanges, p) THEN sc.tStorageChanges[p] ELSE @[p]]]

\* One phase of revert, skipped once a panic has unwound the call
Phase(c1, c2) == IF c1.panic # "" THEN c1 ELSE c2

\* scopedJournal.revert
ScopedRevert(sc, c) ==
    LET c1 == RevertRefund(sc, c)
        c2 == RevertAccounts(sc, c1)
        c3 == Phase(c2, RevertLogs(sc, c2))
        c4 == Phase(c3, RevertAccessList(sc, c3))
        c5 == Phase(c4, RevertStorage(sc, c4))
    IN Phase(c5, RevertTransient(sc, c5))

\* The scopes RevertToSnapshot(id) passes to revert, in order, as Go indices:
\* for i := id; i > 0; i--
RevertOrder(id, depth) == [n \in 1..id |-> id - n + 1]

\* sparseJournal.RevertToSnapshot, past the range check: the loop over the
\* entries and the truncation (skipped when a revert panicked)
RevertLoop(entries, order, c) ==
    LET RECURSIVE Loop(_, _)
        Loop(q, cc) == IF q = <<>> \/ cc.panic # "" THEN cc
                       ELSE Loop(Tail(q), ScopedRevert(entries[Head(q) + 1], cc))
    IN Loop(order, c)

(***************************************************************************)
(* The journal's operations.  A change recorder is modelled together with  *)
(* the StateDB mutation it guards: the recorder runs first, the mutation   *)
(* follows unless the recorder panicked.                                   *)
(***************************************************************************)
Running == jpanic = "" /\ jops < MaxOps

Depth == Len(j.entries)

\* What jlast records of an operation
Did(op, id, order, expected) ==
    [op |-> op, id |-> id, depth |-> Depth, order |-> order, expected |-> expected]

\* j.entries[len(j.entries)-1] of a non-empty stack, replaced by sc
WithTop(sc) == [j EXCEPT !.entries[Depth] = sc]

\* A recorder called with no scope open: the index expression panics
NoScope(op) ==
    /\ Depth = 0
    /\ jpanic' = "index out of range [-1]"
    /\ jlast' = Did(op, -1, <<>>, s)
    /\ jops' = jops + 1
    /\ UNCHANGED <<s, j, saved>>
    /\ UNCHANGED <<diffVars, genVars, fnVars>>

\* sparseJournal.Snapshot
Snapshot ==
    /\ Running
    /\ Depth < MaxDepth
    /\ j' = [j EXCEPT !.entries = Append(@, newScopedJournal)]
    /\ saved' = Append(saved, s)
    /\ jlast' = Did("Snapshot", Depth, <<>>, s)
    /\ jops' = jops + 1
    /\ UNCHANGED <<s, jpanic>>
    /\ UNCHANGED <<diffVars, genVars, fnVars>>

\* A faulty range check that lets the call return without a panic
RevisionIgnored(id) == ""

\* The panic of RevertToSnapshot for a revision that is not on the stack
RevisionError(id) == "revision id cannot be reverted"

\* sparseJournal.RevertToSnapshot
RevertToSnapshot(id) ==
    /\ Running
    /\ jops' = jops + 1
    /\ UNCHANGED <<diffVars, genVars, fnVars>>
    /\ IF id >= Depth
       THEN /\ jpanic' = RevisionError(id)
            /\ jlast' = Did("RevertToSnapshot", id, <<>>, s)
            /\ UNCHANGED <<s, j, saved>>
       ELSE LET order == RevertOrder(id, Depth)
                c == RevertLoop(j.entries, order, [s |-> s, dirties |-> j.dirties, panic |-> ""])
            IN /\ s' = c.s
               /\ jpanic' = c.panic
               /\ j' = [entries |-> IF c.panic = "" THEN SubSeq(j.entries, 1, id) ELSE j.entries,
                        dirties |-> c.dirties]
               /\ saved' = SubSeq(saved, 1, id)
               /\ jlast' = Did("RevertToSnapshot", id, order, saved[id + 1])

\* sparseJournal.journalAccountChange followed, when it returns, by the
\* mutation that makes the object obj2 (Tombstone: no object is written).
\* extra is the additional dirties increment of JournalTouch.
AccountChange(op, addr, account, destructed, obj2, extra) ==
    /\ Running
    /\ \/ NoScope(op)
       \/ /\ Depth > 0
          /\ jops' = jops + 1
          /\ jlast' = Did(op, -1, <<>>, s)
          /\ UNCHANGED <<diffVars, genVars, fnVars>>
          /\ LET r == ScopedJournalAccountChange(Last(j.entries), addr, account, destructed)
                 n == (IF Has(j.dirties, addr) THEN j.dirties[addr] ELSE 0)
                      + (IF r.recorded THEN 1 ELSE 0) + extra
             IN IF r.panic # ""
                THEN /\ jpanic' = r.panic
                     /\ UNCHANGED <<s, j, saved>>
                ELSE /\ j' = [WithTop(r.sc) EXCEPT !.dirties =
                                 IF n = 0 THEN @ ELSE Put(@, addr, n)]
                     /\ s' = [s EXCEPT !.stateObjects = Put(@, addr, obj2)]
                     /\ UNCHANGED <<jpanic, saved>>

\* The account of an existing object as the recorders receive it
AccountOf(addr) ==
    LET o == s.stateObjects[addr]
    IN [tomb |-> FALSE, nonce |-> o.nonce, balance |-> o.balance, codeHash |-> o.codeHash]

\* sparseJournal.JournalNonceChange, then setNonce
JournalNonceChange(addr, nonce) ==
    /\ Has(s.stateObjects, addr)
    /\ AccountChange("JournalNonceChange", addr, AccountOf(addr),
                     s.stateObjects[addr].selfDestructed,
                     [s.stateObjects[addr] EXCEPT !.nonce = nonce], 0)

\* sparseJournal.JournalBalanceChange, then setBalance
JournalBalanceChange(addr, balance) ==
    /\ Has(s.stateObjects, addr)
    /\ AccountChange("JournalBalanceChange", addr, AccountOf(addr),
                     s.stateObjects[addr].selfDestructed,
                     [s.stateObjects[addr] EXCEPT !.balance = balance], 0)

\* sparseJournal.JournalSetCode, then setCode: the account had no code
JournalSetCode(addr, codeHash) ==
    /\ Has(s.stateObjects, addr)
    /\ s.stateObjects[addr].codeHash = EmptyCodeHash
    /\ ~s.stateObjects[addr].selfDestructed
    /\ AccountChange("JournalSetCode", addr, AccountOf(addr), FALSE,
                     [s.stateObjects[addr] EXCEPT !.codeHash = codeHash], 0)

\* sparseJournal.JournalCreate, then the new object is stored
JournalCreate(addr) ==
    /\ ~Has(s.stateObjects, addr)
    /\ AccountChange("JournalCreate", addr, Tombstone, FALSE, NewObject, 0)

\* sparseJournal.JournalDestruct, then the object is marked and emptied
JournalDestruct(addr) ==
    /\ Has(s.stateObjects, addr)
    /\ ~s.stateObjects[addr].selfDestructed
    /\ AccountChange("JournalDestruct", addr, AccountOf(addr), FALSE,
                     [s.stateObjects[addr] EXCEPT !.selfDestructed = TRUE, !.balance = 0], 0)

\* sparseJournal.JournalTouch: the object itself is not changed
JournalTouch(addr) ==
    /\ Has(s.stateObjects, addr)
    /\ AccountChange("JournalTouch", addr, AccountOf(addr),
                     s.stateObjects[addr].selfDestructed,
                     s.stateObjects[addr], IF addr = ripemd THEN 1 ELSE 0)

\* A recorder that writes into the top scope only, then the mutation to s2
ScopeChange(op, sc, s2) ==
    /\ Running
    /\ \/ NoScope(op)
       \/ /\ Depth > 0
          /\ j' = WithTop(sc)
          /\ s' = s2
          /\ jlast' = Did(op, -1, <<>>, s)
          /\ jops' = jops + 1
          /\ UNCHANGED <<jpanic, saved>>
          /\ UNCHANGED <<diffVars, genVars, fnVars>>

TopScope == IF Depth > 0 THEN Last(j.entries) ELSE newScopedJournal

\* sparseJournal.JournalLog, then the log is appended under its transaction
JournalLog(txHash) ==
    /\ s.logSize < MaxLogs
    /\ ScopeChange("JournalLog", ScopedJournalLog(TopScope, txHash),
                   [s EXCEPT !.logs = Put(@, txHash,
                                 Append(IF Has(@, txHash) THEN @[txHash] ELSE <<>>, s.logSize)),
                             !.logSize = @ + 1])

\* sparseJournal.JournalAccessListAddAccount, for an address not yet listed
JournalAccessListAddAccount(addr) ==
    /\ addr \notin s.accessAddrs
    /\ ScopeChange("JournalAccessListAddAccount",
                   ScopedJournalAccessListAddAccount(TopScope, addr),
                   [s EXCEPT !.accessAddrs = @ \cup {addr}])

\* sparseJournal.JournalAccessListAddSlot, for a slot not yet listed of a
\* listed address
JournalAccessListAddSlot(addr, slot) ==
    /\ addr \in s.accessAddrs
    /\ <<addr, slot>> \notin s.accessSlots
    /\ ScopeChange("JournalAccessListAddSlot",
                   ScopedJournalAccessListAddSlot(TopScope, addr, slot),
                   [s EXCEPT !.accessSlots = @ \cup {<<addr, slot>>}])

\* sparseJournal.JournalSetState with the slot's current value, then setState
JournalSetState(addr, key, value) ==
    /\ Has(s.stateObjects, addr)
    /\ s.stateObjects[addr].storage[key] # value
    /\ ScopeChange("JournalSetState",
                   ScopedJournalSetState(TopScope, addr, key, s.stateObjects[addr].storage[key]),
                   [s EXCEPT !.stateObjects[addr].storage[key] = value])

\* sparseJournal.JournalSetTransientState, then setTransientState
JournalSetTransientState(addr, key, value) ==
    /\ s.transientStorage[<<addr, key>>] # value
    /\ ScopeChange("JournalSetTransientState",
                   ScopedJournalSetTransientState(TopScope, addr, key, s.transientStorage[<<addr, key>>]),
                   [s EXCEPT !.transientStorage[<<addr, key>>] = value])

\* scopedJournal.JournalRefund on the top scope, then the refund counter is set
JournalRefund(refund) ==
    /\ s.refund # refund
    /\ ScopeChange("JournalRefund", ScopedJournalRefund(TopScope, s.refund),
                   [s EXCEPT !.refund = refund])

\* sparseJournal.Reset
Reset ==
    /\ Running
    /\ Depth > 0
    /\ j' = newSparseJournal
    /\ saved' = <<>>
    /\ jlast' = Did("Reset", -1, <<>>, s)
    /\ jops' = jops + 1
    /\ UNCHANGED <<s, jpanic>>
    /\ UNCHANGED <<diffVars, genVars, fnVars>>

\* The journalAccount of an object, and the object after a nonce change
PreImage(o) ==
    [tomb |-> FALSE, nonce |-> o.nonce, balance |-> o.balance,
     codeHash |-> IF o.codeHash = EmptyCodeHash THEN "nil" ELSE o.codeHash,
     destructed |-> o.selfDestructed]

\* scopedJournal.revert takes the scope as it finds it.  RecordedScope(D)
\* pushes a scope holding what journalAccountChange is written to record for
\* the addresses of D, a pre-image for an account that exists and nil for one
\* that is created, with dirties counted as sparseJournal.journalAccountChange
\* counts them and the accounts changed or created in the StateDB.  (Through
\* the recorders themselves no such scope comes about: they panic on the nil
\* accountChanges of newScopedJournal.)
RecordedScope(D) ==
    /\ Running
    /\ Depth < MaxDepth
    /\ D # {}
    /\ j' = [entries |-> Append(j.entries,
                 [newScopedJournal EXCEPT !.accountChanges =
                     [nil |-> FALSE,
                      m |-> [a \in D |-> IF Has(s.stateObjects, a)
                                         THEN PreImage(s.stateObjects[a]) ELSE Tombstone]]]),
             dirties |-> [a \in DOMAIN j.dirties \cup D |->
                            (IF Has(j.dirties, a) THEN j.dirties[a] ELSE 0)
                                + (IF a \in D THEN 1 ELSE 0)]]
    /\ s' = [s EXCEPT !.stateObjects =
                [a \in DOMAIN @ \cup D |->
                    IF a \notin D THEN @[a]
                    ELSE IF Has(s.stateObjects, a)
                         THEN [s.stateObjects[a] EXCEPT !.nonce = (@ + 1) % 2]
                         ELSE NewObject]]
    /\ saved' = Append(saved, s)
    /\ jlast' = Did("RecordedScope", Depth, <<>>, s)
    /\ jops' = jops + 1
    /\ UNCHANGED jpanic
    /\ UNCHANGED <<diffVars, genVars, fnVars>>

\* scopedJournal.revert on the top scope, which is then dropped
RevertScope ==
    /\ Running
    /\ Depth > 0
    /\ LET c == ScopedRevert(Last(j.entries), [s |-> s, dirties |-> j.dirties, panic |-> ""])
       IN /\ s' = c.s
          /\ jpanic' = c.panic
          /\ j' = [entries |-> Front(j.entries), dirties |-> c.dirties]
    /\ saved' = Front(saved)
    /\ jlast' = Did("revert", Depth - 1, <<Depth - 1>>, Last(saved))
    /\ jops' = jops + 1
    /\ UNCHANGED <<diffVars, genVars, fnVars>>

RevertNext ==
    \/ \E D \in SUBSET Addrs : RecordedScope(D)
    \/ RevertScope

\* scopedJournal.revert applied to scopes that hold account changes and the
\* storage changes journalled after them
RevertSlotNext ==
    \/ \E D \in SUBSET Addrs : RecordedScope(D)
    \/ \E addr \in Addrs, key \in Keys, value \in Vals : JournalSetState(addr, key, value)
    \/ RevertScope

JournalInit ==
    /\ s = InitStateDB
    /\ j = newSparseJournal
    /\ jpanic = ""
    /\ jlast = [op |-> "new", id |-> -1, depth |-> 0, order |-> <<>>, expected |-> InitStateDB]
    /\ saved = <<>>
    /\ jops = 0

JournalNext ==
    \/ Snapshot
    \/ \E id \in 0..MaxDepth : RevertToSnapshot(id)
    \/ \E addr \in Addrs, n \in 1..1 : JournalNonceChange(addr, n)
    \/ \E addr \in Addrs, b \in 1..1 : JournalBalanceChange(addr, b)
    \/ \E addr \in Addrs : JournalSetCode(addr, "c1")
    \/ \E addr \in Addrs : JournalCreate(addr)
    \/ \E addr \in Addrs : JournalDestruct(addr)
    \/ \E addr \in Addrs : JournalTouch(addr)
    \/ \E t \in TxHashes : JournalLog(t)
    \/ \E addr \in Addrs : JournalAccessListAddAccount(addr)
    \/ \E addr \in Addrs, k \in Keys : JournalAccessListAddSlot(addr, k)
    \/ \E addr \in Addrs, k \in Keys, v \in Vals : JournalSetState(addr, k, v)
    \/ \E addr \in Addrs, k \in Keys, v \in Vals : JournalSetTransientState(addr, k, v)
    \/ \E r \in 0..MaxRefund : JournalRefund(r)
    \/ Reset


(***************************************************************************)
(*                           THE DIFF LAYERS                               *)
(*                                                                         *)
(* A hash is a small number standing for the 8-byte window of the 32-byte  *)
(* hash that the bloom hashers read at bloomHasherOffset.  A value is a    *)
(* number: 0 is the empty byte string (a tombstone), any other number is   *)
(* account or slot data.  Maps are held by reference, as in the code:      *)
(* flatten writes into the parent's maps and returns a layer that shares   *)
(* them.                                                                   *)
(***************************************************************************)

\* Bounds of the diff layer model.
MaxLayers == 3
HashBits == 2
BloomBits == 4

AccountHashes == {1, 2}
SlotHashes == {1, 3}
DiskVal == 9
NilRef == 0
DiskHandle == 0
ErrSnapshotStale == "ErrSnapshotStale"

\* Bitwise exclusive or of two HashBits-wide numbers
Xor(a, b) ==
    LET RECURSIVE X(_, _, _)
        X(x, y, n) == IF n = 0 THEN 0
                      ELSE (((x % 2) + (y % 2)) % 2) + 2 * X(x \div 2, y \div 2, n - 1)
    IN X(a, b, HashBits)

\* accountBloomHasher.Sum64
AccountSum64(h) == h

\* storageBloomHasher.Sum64
StorageSum64(a, sl) == Xor(a, sl)

\* bloomfilter.Filter, by its contract: the set of bit positions set; an
\* item sets and tests the position its Sum64 selects.
BloomPos(sum64) == sum64 % BloomBits

BloomAdd(bits, sum64) == bits \cup {BloomPos(sum64)}

BloomContains(bits, sum64) == BloomPos(sum64) \in bits

\* The disk layer's content (it does not change while diff layers are used):
\* account 1 and the slots of account 1 are on disk, account 2 is not.
DiskAccounts == [h \in {1} |-> DiskVal]

DiskStorage == [p \in {1} \X SlotHashes |-> DiskVal]

\* diskLayer.AccountRLP / diskLayer.Storage of a live, fully generated disk layer
DiskAccountRLP(h) == [val |-> IF Has(DiskAccounts, h) THEN DiskAccounts[h] ELSE 0, err |-> ""]

DiskStorageRead(a, sl) ==
    [val |-> IF Has(DiskStorage, <<a, sl>>) THEN DiskStorage[<<a, sl>>] ELSE 0, err |-> ""]

\* The heap the diff layer operations work on
Heap == [layers |-> layers, accMaps |-> accMaps, stoMaps |-> stoMaps,
         slotMaps |-> slotMaps, panic |-> "", blocked |-> FALSE, ret |-> DiskHandle]

IsDiff(h) == h # DiskHandle

AccountDataOf(H, id) == H.accMaps[H.layers[id].accountData]

StorageDataOf(H, id) == H.stoMaps[H.layers[id].storageData]

\* The slots of account a in a layer's storageData: the empty map when the
\* account has no entry or a nil inner map (ranging over a nil map yields nothing)
SlotsOf(H, id, a) ==
    LET sd == StorageDataOf(H, id)
    IN IF Has(sd, a) /\ sd[a] # NilRef THEN H.slotMaps[sd[a]] ELSE EmptyMap

Len8(v) == IF v = 0 THEN 0 ELSE 1

HashLength == 32

SumOver(S, f(_)) ==
    LET RECURSIVE Sum(_)
        Sum(T) == IF T = {} THEN 0 ELSE LET x == CHOOSE y \in T : TRUE IN f(x) + Sum(T \ {x})
    IN Sum(S)

\* diffLayer.initBloom: the diffed filter and the memory of a layer whose
\* maps are already on the heap
initBloom(H, id) ==
    LET acc == AccountDataOf(H, id)
        sd == StorageDataOf(H, id)
        pairs == {<<a, sl>> \in (DOMAIN sd) \X SlotHashes : Has(SlotsOf(H, id, a), sl)}
        bits == {BloomPos(AccountSum64(h)) : h \in DOMAIN acc}
                    \cup {BloomPos(StorageSum64(p[1], p[2])) : p \in pairs}
        LenAcc(h) == Len8(acc[h])
        LenSlot(p) == Len8(SlotsOf(H, id, p[1])[p[2]])
        mem == SumOver(DOMAIN acc, LenAcc) + Cardinality(DOMAIN acc) * HashLength
                 + SumOver(pairs, LenSlot) + Cardinality(pairs) * HashLength
    IN [H EXCEPT !.layers[id].diffed = bits, !.layers[id].memory = mem]

\* newDiffLayer: the caller's maps go on the heap as they are; storage maps an
\* account hash to [nil, m], a nil inner map standing for a wiped account.
newDiffLayer(H, parent, root, accounts, storage) ==
    LET order == SeqOfSet({a \in DOMAIN storage : ~storage[a].nil})
        RefOf(a) == Len(H.slotMaps) + (CHOOSE i \in 1..Len(order) : order[i] = a)
        outer == [a \in DOMAIN storage |-> IF storage[a].nil THEN NilRef ELSE RefOf(a)]
        dl == [parent |-> parent, origin |-> "nil", memory |-> 0, root |-> root, stale |-> FALSE,
               accountList |-> [nil |-> TRUE, list |-> <<>>],
               accountData |-> Len(H.accMaps) + 1,
               storageList |-> [nil |-> TRUE, m |-> EmptyMap],
               storageData |-> Len(H.stoMaps) + 1,
               diffed |-> {}, cumulative |-> [nil |-> TRUE, bits |-> {}], lock |-> ""]
        H1 == [H EXCEPT !.layers = Append(@, dl),
                        !.accMaps = Append(@, accounts),
                        !.stoMaps = Append(@, outer),
                        !.slotMaps = @ \o [i \in 1..Len(order) |-> storage[order[i]].m],
                        !.ret = Len(H.layers) + 1]
    IN initBloom(H1, Len(H.layers) + 1)

\* The merge of flatten: the child's entries written into the parent's maps
FlattenMerge(H, id, p) ==
    LET dl == H.layers[id]
        parent == H.layers[p]
        acc == AccountDataOf(H, id)
        pacc == AccountDataOf(H, p)
        sd == StorageDataOf(H, id)
        psd == StorageDataOf(H, p)
        \* accounts whose inner map is overwritten blindly / merged slot by slot
        blind == {a \in DOMAIN sd : ~Has(psd, a) \/ psd[a] = NilRef \/ sd[a] = NilRef}
        combo == (DOMAIN sd) \ blind
        psd2 == [a \in (DOMAIN psd) \cup (DOMAIN sd) |-> IF a \in blind THEN sd[a] ELSE psd[a]]
        Merged(r) == LET a == CHOOSE x \in combo : psd[x] = r
                         child == H.slotMaps[sd[a]]
                     IN [sl \in (DOMAIN H.slotMaps[r]) \cup (DOMAIN child) |->
                             IF Has(child, sl) THEN child[sl] ELSE H.slotMaps[r][sl]]
        flat == [parent |-> parent.parent, origin |-> parent.origin,
                 memory |-> parent.memory + dl.memory, root |-> dl.root, stale |-> FALSE,
                 accountList |-> parent.accountList, accountData |-> parent.accountData,
                 storageList |-> parent.storageList, storageData |-> parent.storageData,
                 diffed |-> dl.diffed, cumulative |-> [nil |-> TRUE, bits |-> {}], lock |-> ""]
    IN [H EXCEPT !.layers = Append([@ EXCEPT ![p].stale = TRUE], flat),
                 !.accMaps[parent.accountData] =
                     [h \in (DOMAIN pacc) \cup (DOMAIN acc) |-> IF Has(acc, h) THEN acc[h] ELSE pacc[h]],
                 !.stoMaps[parent.storageData] = psd2,
                 !.slotMaps = [r \in DOMAIN @ |->
                                   IF \E a \in combo : psd[a] = r THEN Merged(r) ELSE @[r]],
                 !.ret = Len(H.layers) + 1]

\* A faulty check that lets a second flatten into the same parent through
ParentStaleUnchecked(H, p) == FALSE

\* flatten's check of the parent it is about to write into: `if parent.stale`
ParentStale(H, p) == H.layers[p].stale

\* A flatten that merges nothing and returns the layer it was called on
flattenUnmerged(H, id) == [H EXCEPT !.ret = id]

\* diffLayer.flatten, with its recursion into the parent.  ret is the layer
\* returned; panic and blocked tell how a call that did not return ended.
RECURSIVE flatten(_, _)
flatten(H, id) ==
    IF ~IsDiff(H.layers[id].parent)
    THEN [H EXCEPT !.ret = id]
    ELSE LET H1 == flatten(H, H.layers[id].parent)
             p == H1.ret
         IN IF H1.panic # "" \/ H1.blocked THEN H1
            ELSE IF H1.layers[p].lock # "" THEN [H1 EXCEPT !.blocked = TRUE]
            ELSE IF ParentStale(H1, p) THEN [H1 EXCEPT !.panic = "parent diff layer is stale"]
            ELSE FlattenMerge(H1, id, p)


\* A read's result: the value (0: empty or nil) and the error, "" when none.
\* "nil pointer dereference" is the panic of a read through a nil filter or a
\* nil origin; "blocked" is a read waiting for a lock that is never released.
Result(val, err) == [val |-> val, err |-> err]

\* A faulty accountRLP that takes an empty entry for an unknown account and
\* goes on to the parent
RECURSIVE accountRLPSkipEmpty(_, _, _)
accountRLPSkipEmpty(H, id, hash) ==
    LET dl == H.layers[id]
    IN IF dl.lock # "" THEN Result(0, "blocked")
       ELSE IF dl.stale THEN Result(0, ErrSnapshotStale)
       ELSE IF Has(AccountDataOf(H, id), hash) /\ Len8(AccountDataOf(H, id)[hash]) > 0
            THEN Result(AccountDataOf(H, id)[hash], "")
       ELSE IF IsDiff(dl.parent) THEN accountRLPSkipEmpty(H, dl.parent, hash)
       ELSE DiskAccountRLP(hash)

\* diffLayer.accountRLP: the walk down the parent chain
RECURSIVE accountRLP(_, _, _)
accountRLP(H, id, hash) ==
    LET dl == H.layers[id]
    IN IF dl.lock # "" THEN Result(0, "blocked")
       ELSE IF dl.stale THEN Result(0, ErrSnapshotStale)
       ELSE IF Has(AccountDataOf(H, id), hash) THEN Result(AccountDataOf(H, id)[hash], "")
       ELSE IF IsDiff(dl.parent) THEN accountRLP(H, dl.parent, hash)
       ELSE DiskAccountRLP(hash)

\* diffLayer.AccountRLP: the bloom check, then the disk layer or the walk
AccountRLP(H, id, hash) ==
    LET dl == H.layers[id]
    IN IF dl.lock # "" THEN Result(0, "blocked")
       ELSE IF dl.cumulative.nil THEN Result(0, "nil pointer dereference")
       ELSE IF ~BloomContains(dl.cumulative.bits, AccountSum64(hash))
            THEN IF dl.origin = "nil" THEN Result(0, "nil pointer dereference")
                 ELSE DiskAccountRLP(hash)
       ELSE accountRLP(H, id, hash)

\* diffLayer.storage: the walk down the parent chain
RECURSIVE storage(_, _, _, _)
storage(H, id, accountHash, storageHash) ==
    LET dl == H.layers[id]
        sd == StorageDataOf(H, id)
    IN IF dl.lock # "" THEN Result(0, "blocked")
       ELSE IF dl.stale THEN Result(0, ErrSnapshotStale)
       ELSE IF Has(sd, accountHash) /\ sd[accountHash] = NilRef THEN Result(0, "")
       ELSE IF Has(sd, accountHash) /\ Has(H.slotMaps[sd[accountHash]], storageHash)
            THEN Result(H.slotMaps[sd[accountHash]][storageHash], "")
       ELSE IF IsDiff(dl.parent) THEN storage(H, dl.parent, accountHash, storageHash)
       ELSE DiskStorageRead(accountHash, storageHash)

\* diffLayer.Storage: the bloom check, then the disk layer or the walk
Storage(H, id, accountHash, storageHash) ==
    LET dl == H.layers[id]
    IN IF dl.lock # "" THEN Result(0, "blocked")
       ELSE IF dl.cumulative.nil THEN Result(0, "nil pointer dereference")
       ELSE IF ~BloomContains(dl.cumulative.bits, StorageSum64(accountHash, storageHash))
            THEN IF dl.origin = "nil" THEN Result(0, "nil pointer dereference")
                 ELSE DiskStorageRead(accountHash, storageHash)
       ELSE storage(H, id, accountHash, storageHash)

\* diffLayer.Prepare.  The loop over the ancestors never moves `layer` off dl:
\* with a disk layer as parent it ends at once; with a diff layer as parent it
\* unions that parent's filter again and again and never returns, holding
\* dl.lock (or waits for the parent's lock, holding dl.lock all the same).
PrepareLayer(dl, parent) ==
    IF ~IsDiff(dl.parent)
    THEN [dl EXCEPT !.cumulative = [nil |-> FALSE, bits |-> dl.diffed], !.origin = "disk"]
    ELSE [dl EXCEPT !.cumulative = [nil |-> FALSE, bits |->
                                       IF parent.lock = "" THEN dl.diffed \cup parent.diffed
                                       ELSE dl.diffed],
                    !.lock = "Prepare"]

DiffRunning == dpanic = ""

Handles == 1..Len(layers)

\* What an Update may write: one account entry or one storage entry per
\* layer.  Data written by the layer with root r is the value r.
AccountInputs(root) ==
    {[h \in {1} |-> root], [h \in {1} |-> 0], [h \in {2} |-> root]}

StorageInputs(root) ==
    {[h \in {1} |-> [nil |-> TRUE, m |-> EmptyMap]]}
        \cup {[h \in {1} |-> [nil |-> FALSE, m |-> [x \in {sl} |-> root]]] : sl \in SlotHashes}
        \cup {[h \in {1} |-> [nil |-> FALSE, m |-> [x \in {1} |-> 0]]]}

UpdateInputs(root) ==
    {[accounts |-> a, storage |-> EmptyMap] : a \in AccountInputs(root)}
        \cup {[accounts |-> EmptyMap, storage |-> m] : m \in StorageInputs(root)}

SetHeap(H) ==
    /\ layers' = H.layers
    /\ accMaps' = H.accMaps
    /\ stoMaps' = H.stoMaps
    /\ slotMaps' = H.slotMaps
    /\ dpanic' = H.panic

\* newDiffLayer on the disk layer, or diffLayer.Update on a diff layer
Update(parent, accounts, sto) ==
    /\ DiffRunning
    /\ Len(layers) < MaxLayers
    /\ LET H == newDiffLayer(Heap, parent, Len(layers) + 1, accounts, sto)
       IN /\ SetHeap(H)
          /\ dlast' = [op |-> "Update", id |-> parent, ret |-> H.ret]
    /\ UNCHANGED <<fl, flog>>
    /\ UNCHANGED <<journalVars, genVars, fnVars>>

\* diffLayer.Prepare(origin)
Prepare(id) ==
    /\ DiffRunning
    /\ layers[id].lock = ""
    /\ layers' = [layers EXCEPT ![id] =
                     PrepareLayer(@, IF IsDiff(@.parent) THEN layers[@.parent] ELSE @)]
    /\ dlast' = [op |-> "Prepare", id |-> id,
                 ret |-> IF IsDiff(layers[id].parent) THEN -1 ELSE id]
    /\ UNCHANGED <<accMaps, stoMaps, slotMaps, dpanic, fl, flog>>
    /\ UNCHANGED <<journalVars, genVars, fnVars>>

\* diffLayer.Release
Release(id) ==
    /\ DiffRunning
    /\ layers[id].lock = ""
    /\ ~layers[id].cumulative.nil
    /\ layers' = [layers EXCEPT ![id].cumulative = [nil |-> TRUE, bits |-> {}]]
    /\ dlast' = [op |-> "Release", id |-> id, ret |-> id]
    /\ UNCHANGED <<accMaps, stoMaps, slotMaps, dpanic, fl, flog>>
    /\ UNCHANGED <<journalVars, genVars, fnVars>>

\* diffLayer.flatten: every layer the recursion makes is kept on the heap
Flatten(id) ==
    /\ DiffRunning
    /\ IsDiff(layers[id].parent)
    /\ LET H == flatten(Heap, id)
       IN /\ Len(H.layers) <= MaxLayers + 1
          /\ SetHeap(H)
          /\ dlast' = [op |-> "flatten", id |-> id,
                       ret |-> IF H.panic # "" \/ H.blocked THEN -1 ELSE H.ret]
    /\ UNCHANGED <<fl, flog>>
    /\ UNCHANGED <<journalVars, genVars, fnVars>>

\* A layer and its diff layer ancestors, the layer first
RECURSIVE Chain(_)
Chain(id) == IF IsDiff(layers[id].parent) THEN <<id>> \o Chain(layers[id].parent) ELSE <<id>>

ChainSet(id) == {Chain(id)[i] : i \in 1..Len(Chain(id))}

(***************************************************************************)
(* flatten called from several goroutines.  A call descends the parent     *)
(* chain reading only the parent fields, which never change; the layer     *)
(* over the disk layer returns itself, and on the way back each level      *)
(* takes the lock of the layer returned to it, checks it, writes into its  *)
(* maps and releases the lock.  One such locked section is one step.       *)
(***************************************************************************)
Goroutines == {"g1", "g2"}

NoCall == [pc |-> "idle", todo |-> <<>>, parent |-> DiskHandle, ret |-> DiskHandle]

\* Goroutine g calls flatten on layer id: todo are the layers still to be
\* merged, lowest first, parent is the layer the next merge writes into
FlattenCall(g, id) ==
    /\ DiffRunning
    /\ fl[g].pc \in {"idle", "returned"}
    /\ LET c == Chain(id)
       IN fl' = [fl EXCEPT ![g] =
                    IF Len(c) = 1
                    THEN [NoCall EXCEPT !.pc = "returned", !.ret = id]
                    ELSE [NoCall EXCEPT !.pc = "merging", !.parent = c[Len(c)],
                                        !.todo = [i \in 1..(Len(c) - 1) |-> c[Len(c) - i]]]]
    /\ UNCHANGED <<layers, accMaps, stoMaps, slotMaps, dpanic, dlast, flog>>
    /\ UNCHANGED <<journalVars, genVars, fnVars>>

\* One level of g's flatten: under the parent's lock, the panic on a stale
\* parent or the merge and the layer returned to the level above
FlattenStep(g) ==
    /\ DiffRunning
    /\ fl[g].pc = "merging"
    /\ layers[fl[g].parent].lock = ""
    /\ Len(layers) < MaxLayers + 2
    /\ IF ParentStale(Heap, fl[g].parent)
       THEN /\ dpanic' = "parent diff layer is stale"
            /\ fl' = [fl EXCEPT ![g].pc = "panicked"]
            /\ UNCHANGED <<layers, accMaps, stoMaps, slotMaps, flog>>
       ELSE LET H == FlattenMerge(Heap, Head(fl[g].todo), fl[g].parent)
            IN /\ SetHeap(H)
               /\ flog' = Append(flog, fl[g].parent)
               /\ fl' = [fl EXCEPT ![g] =
                            [pc |-> IF Len(@.todo) = 1 THEN "returned" ELSE "merging",
                             todo |-> Tail(@.todo), parent |-> H.ret,
                             ret |-> IF Len(@.todo) = 1 THEN H.ret ELSE DiskHandle]]
    /\ UNCHANGED dlast
    /\ UNCHANGED <<journalVars, genVars, fnVars>>

DiffInit ==
    /\ layers = <<>>
    /\ accMaps = <<>>
    /\ stoMaps = <<>>
    /\ slotMaps = <<>>
    /\ dpanic = ""
    /\ dlast = [op |-> "new", id |-> 0, ret |-> 0]
    /\ fl = [g \in Goroutines |-> NoCall]
    /\ flog = <<>>

\* The ascending sequence of a finite set of numbers
RECURSIVE SortedSeq(_)
SortedSeq(S) ==
    IF S = {} THEN <<>>
    ELSE LET m == CHOOSE x \in S : \A y \in S : x <= y IN <<m>> \o SortedSeq(S \ {m})

\* diffLayer.AccountList: the memoised list if there is one, else the keys of
\* accountData sorted, which are memoised.  ret is the layer; the list
\* returned is the layer's accountList after the call.
AccountList(H, id) ==
    IF ~H.layers[id].accountList.nil
    THEN [H EXCEPT !.ret = id]
    ELSE [H EXCEPT !.layers[id].accountList =
                       [nil |-> FALSE, list |-> SortedSeq(DOMAIN AccountDataOf(H, id))],
                   !.ret = id]

\* The storageList entry of an account: nil when the map is nil or has no
\* entry for it
StorageListOf(H, id, accountHash) ==
    LET sl == H.layers[id].storageList
    IN IF ~sl.nil /\ Has(sl.m, accountHash) THEN [nil |-> FALSE, list |-> sl.m[accountHash]]
       ELSE [nil |-> TRUE, list |-> <<>>]

\* diffLayer.StorageList: the memoised list of the account if there is one,
\* else the slot hashes of the account's inner map sorted (none for a missing
\* or nil inner map), stored in storageList.  Storing into the nil map that
\* newDiffLayer and flatten leave in storageList panics.
StorageList(H, id, accountHash) ==
    IF ~StorageListOf(H, id, accountHash).nil
    THEN [H EXCEPT !.ret = id]
    ELSE IF H.layers[id].storageList.nil
    THEN [H EXCEPT !.panic = "assignment to entry in nil map"]
    ELSE [H EXCEPT !.layers[id].storageList.m =
                       Put(@, accountHash, SortedSeq(DOMAIN SlotsOf(H, id, accountHash))),
                   !.ret = id]

\* A call of AccountList on a layer
AccountListCall(id) ==
    /\ DiffRunning
    /\ layers[id].lock = ""
    /\ SetHeap(AccountList(Heap, id))
    /\ dlast' = [op |-> "AccountList", id |-> id, ret |-> id]
    /\ UNCHANGED <<fl, flog>>
    /\ UNCHANGED <<journalVars, genVars, fnVars>>

\* A call of StorageList on a layer; ret of the call logged is the account
\* asked for
StorageListCall(id, accountHash) ==
    /\ DiffRunning
    /\ layers[id].lock = ""
    /\ SetHeap(StorageList(Heap, id, accountHash))
    /\ dlast' = [op |-> "StorageList", id |-> id, ret |-> accountHash]
    /\ UNCHANGED <<fl, flog>>
    /\ UNCHANGED <<journalVars, genVars, fnVars>>

\* Layers made, flattened and listed
ListNext ==
    \/ \E parent \in {DiskHandle} \cup Handles, in \in UpdateInputs(Len(layers) + 1) :
           Update(parent, in.accounts, in.storage)
    \/ \E id \in Handles : Flatten(id)
    \/ \E id \in Handles : AccountListCall(id)
    \/ \E id \in Handles, a \in AccountHashes : StorageListCall(id, a)

\* newDiffLayer and Update, and flatten called from the goroutines
FlattenNext ==
    \/ \E parent \in {DiskHandle} \cup Handles, in \in UpdateInputs(Len(layers) + 1) :
           Update(parent, in.accounts, in.storage)
    \/ \E g \in Goroutines, id \in Handles : FlattenCall(g, id)
    \/ \E g \in Goroutines : FlattenStep(g)

DiffNext ==
    \/ \E parent \in {DiskHandle} \cup Handles, in \in UpdateInputs(Len(layers) + 1) :
           Update(parent, in.accounts, in.storage)
    \/ \E id \in Handles : Prepare(id)
    \/ \E id \in Handles : Release(id)
    \/ \E id \in Handles : Flatten(id)



(***************************************************************************)
(*                        THE SNAPSHOT GENERATOR                           *)
(*                                                                         *)
(* A hash is a KeyBits-wide number, so that the largest hash and the       *)
(* overflow of increaseKey are within reach.  A trie is the map of its     *)
(* leaves, and a trie root is that map itself (two tries have the same     *)
(* root exactly when they have the same leaves).  The counters of          *)
(* generatorStats are left out.                                            *)
(***************************************************************************)

\* Bounds of the generator model.  accountCheckRange (128 in the code),
\* storageCheckRange (1024) and IdealBatchSize (bytes in the code, entries
\* here) are scaled down so that ranges and flushes happen within few keys.
KeyBits == 2
accountCheckRange == 2
storageCheckRange == 1
IdealBatchSize == 2
MaxAborts == 2

KeyMax == 2^KeyBits - 1

HashKeys == 0..KeyMax

\* A nil []byte where a key is expected
NilKey == -1

emptyRoot == EmptyMap

emptyCode == "emptyCode"

\* An account as the trie holds it (the full RLP encoding)
FullAccount(nonce, balance, root, codeHash) ==
    [enc |-> "full", nonce |-> nonce, balance |-> balance,
     root |-> [nil |-> FALSE, hash |-> root], codeHash |-> [nil |-> FALSE, hash |-> codeHash]]

\* SlimAccountRLP: the empty root and the empty code hash are left out
SlimAccountRLP(nonce, balance, root, codeHash) ==
    [enc |-> "slim", nonce |-> nonce, balance |-> balance,
     root |-> IF root = emptyRoot THEN [nil |-> TRUE, hash |-> emptyRoot]
              ELSE [nil |-> FALSE, hash |-> root],
     codeHash |-> IF codeHash = emptyCode THEN [nil |-> TRUE, hash |-> emptyCode]
                  ELSE [nil |-> FALSE, hash |-> codeHash]]

\* Bytes that do not decode as a slim account
CorruptAccount ==
    [enc |-> "corrupt", nonce |-> 0, balance |-> 0,
     root |-> [nil |-> TRUE, hash |-> emptyRoot],
     codeHash |-> [nil |-> TRUE, hash |-> emptyCode]]

\* FullAccountRLP: the slim encoding turned into the full one, or an error
FullAccountRLP(data) ==
    IF data.enc # "slim" THEN [err |-> TRUE, val |-> data]
    ELSE [err |-> FALSE,
          val |-> FullAccount(data.nonce, data.balance,
                              IF data.root.nil THEN emptyRoot ELSE data.root.hash,
                              IF data.codeHash.nil THEN emptyCode ELSE data.codeHash.hash)]

\* bytes.Equal on encoded values
BytesEqual(a, b) == a = b

\* A faulty increaseKey that hands the key back unchanged: with it a range
\* loop starts again at the last key it saw
increaseKeyStuck(key) == key

\* increaseKey: the key plus one, nil when the addition overflows (and for
\* a nil key, whose loop runs zero times)
increaseKey(key) ==
    IF key = NilKey THEN NilKey
    ELSE IF (key + 1) % (2^KeyBits) = 0 THEN NilKey ELSE key + 1

\* v handed to F as a value computed once
Let(v, F(_)) == CHOOSE r \in {F(x) : x \in {v}} : TRUE

\* proveRange, the iteration of the database: up to max flat entries from
\* origin on.  keys is the set of the keys collected, vals maps each to its
\* value (kind "account" converts it with FullAccountRLP and keeps the flat
\* bytes where that fails), last is the largest key collected.
CollectRange(entries, kind, origin, max) ==
    Let({k \in DOMAIN entries : origin = NilKey \/ k >= origin}, LAMBDA from :
    Let({k \in from : Cardinality({x \in from : x < k}) < max}, LAMBDA keys :
        [keys |-> keys,
         vals |-> [k \in keys |->
                     IF kind = "account" THEN FullAccountRLP(entries[k]).val ELSE entries[k]],
         last |-> IF keys = {} THEN NilKey ELSE CHOOSE k \in keys : \A x \in keys : x <= k,
         diskMore |-> Cardinality(from) > max]))

\* The stack trie built from the whole batch hashes to root exactly when the
\* batch is the content of the trie at root
StackTrieHashIsRoot(tr, keys, vals) ==
    DOMAIN tr = keys /\ \A k \in keys : BytesEqual(vals[k], tr[k])

\* trie.VerifyRangeProof with the edge proofs of origin and last, by its
\* contract: no error exactly when the batch is the content of the trie in
\* [origin, last]; cont tells whether the trie has leaves past last
VerifyRangeProof(tr, origin, last, keys, vals) ==
    [cont |-> \E k \in DOMAIN tr : last # NilKey /\ k > last,
     err |-> ~({k \in DOMAIN tr : (origin = NilKey \/ k >= origin)
                                   /\ (last = NilKey \/ k <= last)} = keys
               /\ \A k \in keys : BytesEqual(vals[k], tr[k]))]

\* A faulty proveRange without the whole-batch case: it always asks for the
\* range proof
ProofResultEdgeOnly(tr, origin, c) ==
    [keys |-> c.keys, vals |-> c.vals, last |-> c.last, diskMore |-> c.diskMore,
     trieMore |-> VerifyRangeProof(tr, origin, c.last, c.keys, c.vals).cont,
     valid |-> ~VerifyRangeProof(tr, origin, c.last, c.keys, c.vals).err]

\* The result of proveRange for a collected batch c: the whole batch against
\* the root when nothing is left out, else the range proof
ProofResult(tr, origin, c) ==
    IF origin = NilKey /\ ~c.diskMore
    THEN [keys |-> c.keys, vals |-> c.vals, last |-> c.last, diskMore |-> FALSE,
          trieMore |-> FALSE, valid |-> StackTrieHashIsRoot(tr, c.keys, c.vals)]
    ELSE [keys |-> c.keys, vals |-> c.vals, last |-> c.last, diskMore |-> c.diskMore,
          trieMore |-> VerifyRangeProof(tr, origin, c.last, c.keys, c.vals).cont,
          valid |-> ~VerifyRangeProof(tr, origin, c.last, c.keys, c.vals).err]

\* trie.New(root, db): whether the trie at root, a state trie (kind
\* "account") or a storage trie, can be opened.  The empty trie has no node
\* to resolve.
trieNew(db, kind, root) == root = emptyRoot \/ db[kind]

\* proveRange: the flat entries of a range against the trie.  entries are
\* the flat entries under the prefix, tr the leaves of the trie at root, db
\* the trie database.  The whole batch is checked without the trie; the edge
\* proofs need it, and err is the error of a trie that cannot be opened.
proveRange(db, tr, entries, kind, origin, max) ==
    Let(CollectRange(entries, kind, origin, max), LAMBDA c :
        [err |-> (origin # NilKey \/ c.diskMore) /\ ~trieNew(db, kind, tr)]
            @@ ProofResult(tr, origin, c))

\* An invocation of the onState callback; nilVal stands for the nil value of
\* a deletion
Call(key, val, write, delete) == [key |-> key, val |-> val, write |-> write, delete |-> delete]

\* A faulty lockstep loop that keeps a flat key it has matched with a trie
\* leaf: the key is met again as a stale one
RECURSIVE LockStepKeep(_, _, _, _, _)
LockStepKeep(iter, kvkeys, tr, vals, nilVal) ==
    IF iter = <<>>
    THEN [i \in 1..Len(kvkeys) |-> Call(kvkeys[i], nilVal, FALSE, TRUE)]
    ELSE IF kvkeys # <<>> /\ Head(kvkeys) < Head(iter)
    THEN <<Call(Head(kvkeys), nilVal, FALSE, TRUE)>>
             \o LockStepKeep(iter, Tail(kvkeys), tr, vals, nilVal)
    ELSE IF kvkeys # <<>> /\ Head(kvkeys) = Head(iter)
    THEN <<Call(Head(iter), tr[Head(iter)],
                ~BytesEqual(vals[Head(iter)], tr[Head(iter)]), FALSE)>>
             \o LockStepKeep(Tail(iter), kvkeys, tr, vals, nilVal)
    ELSE <<Call(Head(iter), tr[Head(iter)], TRUE, FALSE)>>
             \o LockStepKeep(Tail(iter), kvkeys, tr, vals, nilVal)

\* generateRange, the loop over the trie iterator in lockstep with the flat
\* keys: iter are the keys the iterator has yet to yield, kvkeys the flat
\* keys not yet met.  A flat key below the iterator's key is deleted; the
\* leaf is written unless the flat key is there with the leaf's value; the
\* flat keys left when the iterator ends are deleted.
RECURSIVE LockStep(_, _, _, _, _)
LockStep(iter, kvkeys, tr, vals, nilVal) ==
    IF iter = <<>>
    THEN [i \in 1..Len(kvkeys) |-> Call(kvkeys[i], nilVal, FALSE, TRUE)]
    ELSE IF kvkeys # <<>> /\ Head(kvkeys) < Head(iter)
    THEN <<Call(Head(kvkeys), nilVal, FALSE, TRUE)>>
             \o LockStep(iter, Tail(kvkeys), tr, vals, nilVal)
    ELSE IF kvkeys # <<>> /\ Head(kvkeys) = Head(iter)
    THEN <<Call(Head(iter), tr[Head(iter)],
                ~BytesEqual(vals[Head(iter)], tr[Head(iter)]), FALSE)>>
             \o LockStep(Tail(iter), Tail(kvkeys), tr, vals, nilVal)
    ELSE <<Call(Head(iter), tr[Head(iter)], TRUE, FALSE)>>
             \o LockStep(Tail(iter), kvkeys, tr, vals, nilVal)

\* A faulty trie iteration that does not stop at last: the leaves past the
\* batch are delivered as well
IterateTrieUnbounded(tr, result, origin, nilVal) ==
    Let({k \in DOMAIN tr : origin = NilKey \/ k >= origin}, LAMBDA leaves :
        [calls |-> LockStep(SortedSeq(leaves), SortedSeq(result.keys), tr, result.vals, nilVal),
         trieMore |-> FALSE])

\* generateRange, the trie iteration: the iterator yields the leaves from
\* origin on in key order and the loop leaves it at the first key past last;
\* the flat keys are in the order the database iterator gave them.
IterateTrie(tr, result, origin, nilVal) ==
    Let({k \in DOMAIN tr : (origin = NilKey \/ k >= origin)
                            /\ (result.last = NilKey \/ k <= result.last)}, LAMBDA leaves :
        [calls |-> LockStep(SortedSeq(leaves), SortedSeq(result.keys), tr, result.vals, nilVal),
         trieMore |-> \E k \in DOMAIN tr : result.last # NilKey /\ k > result.last])

\* A faulty delivery of a proved range that has every entry written again
ProvedCallsWritten(result) ==
    Let(SortedSeq(result.keys), LAMBDA order :
        [i \in 1..Len(order) |-> Call(order[i], result.vals[order[i]], TRUE, FALSE)])

\* The callbacks of a proved range
ProvedCalls(result) ==
    Let(SortedSeq(result.keys), LAMBDA order :
        [i \in 1..Len(order) |-> Call(order[i], result.vals[order[i]], FALSE, FALSE)])

\* A faulty generateRange that swallows the error of a trie it cannot open
\* and reports an empty, exhausted range
RangeErrorSwallowed == [err |-> FALSE, calls |-> <<>>, exhausted |-> TRUE, last |-> NilKey]

\* What generateRange returns when it fails before any callback
RangeError == [err |-> TRUE, calls |-> <<>>, exhausted |-> FALSE, last |-> NilKey]

\* generateRange: proveRange, then the callbacks of a proved range or of the
\* trie iteration, the exhausted flag and last.  The callbacks are run one by
\* one by the generator's actions.  The trie iteration opens the trie unless
\* the prover did.
generateRange(db, tr, entries, kind, origin, max, nilVal) ==
    Let(proveRange(db, tr, entries, kind, origin, max), LAMBDA result :
        IF result.err THEN RangeError
        ELSE IF result.valid
        THEN [err |-> FALSE, calls |-> ProvedCalls(result),
              exhausted |-> ~result.diskMore /\ ~result.trieMore, last |-> result.last]
        ELSE IF ~trieNew(db, kind, tr) THEN RangeError
        ELSE Let(IterateTrie(tr, result, origin, nilVal), LAMBDA it :
                 [err |-> FALSE, calls |-> it.calls,
                  exhausted |-> ~it.trieMore /\ ~result.diskMore, last |-> result.last]))

\* The nil value a deletion callback receives
NilAccount ==
    [enc |-> "nil", nonce |-> 0, balance |-> 0,
     root |-> [nil |-> TRUE, hash |-> emptyRoot],
     codeHash |-> [nil |-> TRUE, hash |-> emptyCode]]

NilSlot == 0

\* A marker: nil, or the location <<>>, <<account>> or <<account, slot>>
Marker(loc) == [nil |-> FALSE, loc |-> loc]

NilMarker == [nil |-> TRUE, loc |-> <<>>]

\* An entry of the write batch
PutAccount(k, data) == [del |-> FALSE, kind |-> "account", key |-> <<k>>, val |-> data]

DeleteAccount(k) == [del |-> TRUE, kind |-> "account", key |-> <<k>>, val |-> NilAccount]

PutStorage(a, k, data) == [del |-> FALSE, kind |-> "storage", key |-> <<a, k>>, val |-> data]

DeleteStorage(a, k) == [del |-> TRUE, kind |-> "storage", key |-> <<a, k>>, val |-> NilSlot]

\* batch.Write: the entries applied to the database in order
RECURSIVE WriteBatch(_, _)
WriteBatch(db, b) ==
    IF b = <<>> THEN db
    ELSE LET e == Head(b)
             db1 == IF e.kind = "account"
                    THEN [db EXCEPT !.accounts = IF e.del THEN Del(@, e.key[1])
                                                 ELSE Put(@, e.key[1], e.val)]
                    ELSE [db EXCEPT !.storage = IF e.del THEN Del(@, e.key)
                                                ELSE Put(@, e.key, e.val)]
         IN WriteBatch(db1, Tail(b))

\* batch.ValueSize, in entries
ValueSize(b) == Len(b)

\* wipeKeyRange over the storage prefix of an account: every flat storage
\* entry of the account is deleted from the database at once
wipeKeyRange(db, accountHash) ==
    [db EXCEPT !.storage = [p \in {q \in DOMAIN @ : q[1] # accountHash} |-> @[p]]]

\* The flat storage entries of an account, by slot
StorageEntries(db, accountHash) ==
    [k \in {q[2] : q \in {x \in DOMAIN db.storage : x[1] = accountHash}} |->
        db.storage[<<accountHash, k>>]]

\* journalProgress: the generator record a marker is journalled as
journalProgress(marker) == [done |-> marker.nil, marker |-> marker.loc]

\* What the generator's steps read and write apart from its locals
World == [diskdb |-> diskdb, journalGen |-> journalGen, batch |-> batch,
          genMarker |-> genMarker, genAbort |-> genAbort, abort |-> gen.abort, err |-> FALSE]

\* A faulty checkAndFlush that takes the abort request and flushes, but goes
\* on without the "aborted" error
checkAndFlushGoOn(w, currentLocation) ==
    LET w1 == IF w.genAbort = "sending"
              THEN [w EXCEPT !.genAbort = "waiting", !.abort = TRUE]
              ELSE w
    IN IF ValueSize(w1.batch) > IdealBatchSize \/ w1.abort
       THEN [w1 EXCEPT !.diskdb = WriteBatch(@, w1.batch),
                       !.journalGen = journalProgress(Marker(currentLocation)),
                       !.batch = <<>>,
                       !.genMarker = Marker(currentLocation)]
       ELSE w1

\* A faulty checkAndFlush that publishes the location as the marker on every
\* call, flushed or not
checkAndFlushPublishFirst(w, currentLocation) ==
    LET w1 == IF w.genAbort = "sending"
              THEN [w EXCEPT !.genAbort = "waiting", !.abort = TRUE]
              ELSE w
    IN IF ValueSize(w1.batch) > IdealBatchSize \/ w1.abort
       THEN [w1 EXCEPT !.diskdb = WriteBatch(@, w1.batch),
                       !.journalGen = journalProgress(Marker(currentLocation)),
                       !.batch = <<>>,
                       !.genMarker = Marker(currentLocation),
                       !.err = w1.abort]
       ELSE [w1 EXCEPT !.genMarker = Marker(currentLocation)]

\* checkAndFlush: the abort request is taken if one waits; the batch and the
\* progress are written when the batch is large or an abort was taken; err
\* is the "aborted" error
checkAndFlush(w, currentLocation) ==
    LET w1 == IF w.genAbort = "sending"
              THEN [w EXCEPT !.genAbort = "waiting", !.abort = TRUE]
              ELSE w
    IN IF ValueSize(w1.batch) > IdealBatchSize \/ w1.abort
       THEN [w1 EXCEPT !.diskdb = WriteBatch(@, w1.batch),
                       !.journalGen = journalProgress(Marker(currentLocation)),
                       !.batch = <<>>,
                       !.genMarker = Marker(currentLocation),
                       !.err = w1.abort]
       ELSE w1

SetWorld(w) ==
    /\ diskdb' = w.diskdb
    /\ journalGen' = w.journalGen
    /\ batch' = w.batch
    /\ genMarker' = w.genMarker
    /\ genAbort' = w.genAbort

\* A faulty start of generate that keeps the full account range when it
\* resumes from a marker
GenLocalsFullRange(marker) ==
    LET resumed == Len(marker.loc) > 0
        accMarker == IF resumed THEN marker.loc[1] ELSE NilKey
    IN [pc |-> "account range", abort |-> FALSE,
        accMarker |-> accMarker, accOrigin |-> accMarker,
        accountRange |-> accountCheckRange,
        accCalls |-> <<>>, accExhausted |-> FALSE, accLast |-> NilKey,
        accountHash |-> NilKey, root |-> emptyRoot, storeOrigin |-> NilKey,
        stoCalls |-> <<>>, stoExhausted |-> FALSE, stoLast |-> NilKey]

\* A faulty start of generate that resumes after the account of the marker
\* instead of at it, leaving out the rest of that account's storage
GenLocalsSkip(marker) ==
    LET resumed == Len(marker.loc) > 0
    IN [pc |-> "account range", abort |-> FALSE,
        accMarker |-> NilKey,
        accOrigin |-> IF resumed THEN increaseKey(marker.loc[1]) ELSE NilKey,
        accountRange |-> IF resumed THEN 1 ELSE accountCheckRange,
        accCalls |-> <<>>, accExhausted |-> FALSE, accLast |-> NilKey,
        accountHash |-> NilKey, root |-> emptyRoot, storeOrigin |-> NilKey,
        stoCalls |-> <<>>, stoExhausted |-> FALSE, stoLast |-> NilKey]

\* The locals of generate as it starts from a marker
GenLocals(marker) ==
    LET resumed == Len(marker.loc) > 0
        accMarker == IF resumed THEN marker.loc[1] ELSE NilKey
    IN [pc |-> "account range", abort |-> FALSE,
        accMarker |-> accMarker, accOrigin |-> accMarker,
        accountRange |-> IF resumed THEN 1 ELSE accountCheckRange,
        accCalls |-> <<>>, accExhausted |-> FALSE, accLast |-> NilKey,
        accountHash |-> NilKey, root |-> emptyRoot, storeOrigin |-> NilKey,
        stoCalls |-> <<>>, stoExhausted |-> FALSE, stoLast |-> NilKey]

\* The locals once generate has returned or finished
Ended(pc) == [GenLocals(Marker(<<>>)) EXCEPT !.pc = pc, !.accountRange = 0]

\* An account callback has returned nil: the next callback of the range
NextAccount(g) ==
    [g EXCEPT !.pc = "onAccount", !.accCalls = Tail(@), !.accountHash = NilKey,
              !.root = emptyRoot, !.storeOrigin = NilKey, !.stoCalls = <<>>,
              !.stoExhausted = FALSE, !.stoLast = NilKey]

Others == <<journalVars, diffVars, fnVars>>

\* generate, the main loop: generateRange over the accounts up to its callbacks
AccountRange ==
    /\ gen.pc = "account range"
    /\ \E r \in {generateRange(triedb, trie, diskdb.accounts, "account", gen.accOrigin,
                                gen.accountRange, NilAccount)} :
          gen' = IF r.err THEN Ended("failed")
                 ELSE [gen EXCEPT !.pc = "onAccount", !.accCalls = r.calls,
                                  !.accExhausted = r.exhausted, !.accLast = r.last]
    /\ UNCHANGED <<trie, triedb, diskdb, journalGen, batch, genMarker, genPending, genAbort,
                   flat0, abortLog, Others>>

\* onAccount for the next element of the account range
OnAccount ==
    /\ gen.pc = "onAccount"
    /\ gen.accCalls # <<>>
    /\ \E c \in {Head(gen.accCalls)} :
       \E inProgress \in {gen.accMarker # NilKey /\ c.key = gen.accMarker} :
       \E w \in {checkAndFlush(
                    [World EXCEPT !.batch =
                        IF ~c.delete /\ ~inProgress /\ c.write
                        THEN Append(@, PutAccount(c.key, SlimAccountRLP(c.val.nonce, c.val.balance,
                                                      c.val.root.hash, c.val.codeHash.hash)))
                        ELSE @],
                    <<c.key>>)} :
          IF c.delete
          THEN /\ SetWorld([World EXCEPT !.batch = Append(@, DeleteAccount(c.key)),
                                         !.diskdb = wipeKeyRange(@, c.key)])
               /\ gen' = [gen EXCEPT !.accCalls = Tail(@)]
          ELSE IF w.err
          THEN /\ SetWorld(w)
               /\ gen' = [Ended("aborting") EXCEPT !.abort = TRUE]
          ELSE IF c.val.root.hash = emptyRoot
          THEN /\ SetWorld([w EXCEPT !.diskdb = wipeKeyRange(@, c.key)])
               /\ gen' = [NextAccount(gen) EXCEPT !.accMarker = NilKey, !.abort = w.abort]
          ELSE /\ SetWorld(w)
               /\ gen' = [gen EXCEPT !.pc = "storage range", !.abort = w.abort,
                                     !.accountHash = c.key, !.root = c.val.root.hash,
                                     !.storeOrigin =
                                         \* storeMarker, read from dl.genMarker after the flush
                                         IF inProgress /\ Len(w.genMarker.loc) > 1
                                         THEN w.genMarker.loc[2] ELSE NilKey]
    /\ UNCHANGED <<trie, triedb, genPending, flat0, abortLog, Others>>

\* onAccount, the storage loop: generateRange over the account's storage up
\* to its callbacks
StorageRange ==
    /\ gen.pc = "storage range"
    /\ \E r \in {generateRange(triedb, gen.root, StorageEntries(diskdb, gen.accountHash),
                                "storage", gen.storeOrigin, storageCheckRange, NilSlot)} :
          gen' = IF r.err THEN Ended("failed")
                 ELSE [gen EXCEPT !.pc = "onStorage", !.stoCalls = r.calls,
                                  !.stoExhausted = r.exhausted, !.stoLast = r.last]
    /\ UNCHANGED <<trie, triedb, diskdb, journalGen, batch, genMarker, genPending, genAbort,
                   flat0, abortLog, Others>>

\* onStorage for the next element of the storage range
OnStorage ==
    /\ gen.pc = "onStorage"
    /\ gen.stoCalls # <<>>
    /\ \E c \in {Head(gen.stoCalls)} :
       \E w \in {checkAndFlush(
                    [World EXCEPT !.batch =
                        IF ~c.delete /\ c.write
                        THEN Append(@, PutStorage(gen.accountHash, c.key, c.val)) ELSE @],
                    <<gen.accountHash, c.key>>)} :
          IF c.delete
          THEN /\ SetWorld([World EXCEPT !.batch = Append(@, DeleteStorage(gen.accountHash, c.key))])
               /\ gen' = [gen EXCEPT !.stoCalls = Tail(@)]
          ELSE IF w.err
          THEN /\ SetWorld(w)
               /\ gen' = [Ended("aborting") EXCEPT !.abort = TRUE]
          ELSE /\ SetWorld(w)
               /\ gen' = [gen EXCEPT !.stoCalls = Tail(@), !.abort = w.abort]
    /\ UNCHANGED <<trie, triedb, genPending, flat0, abortLog, Others>>

\* The storage loop after a range: it ends when the range was the last one or
\* its last key has no successor, and onAccount returns; else the next range
StorageRangeEnd ==
    /\ gen.pc = "onStorage"
    /\ gen.stoCalls = <<>>
    /\ gen' = IF gen.stoExhausted \/ increaseKey(gen.stoLast) = NilKey
              THEN [NextAccount(gen) EXCEPT !.accMarker = NilKey]
              ELSE [gen EXCEPT !.pc = "storage range", !.storeOrigin = increaseKey(gen.stoLast),
                               !.stoExhausted = FALSE, !.stoLast = NilKey]
    /\ UNCHANGED <<trie, triedb, diskdb, journalGen, batch, genMarker, genPending, genAbort,
                   flat0, abortLog, Others>>

\* A faulty main loop that leaves after its first range, exhausted or not
AccountRangeEndEarly ==
    /\ gen.pc = "onAccount"
    /\ gen.accCalls = <<>>
    /\ gen' = [gen EXCEPT !.pc = "complete"]
    /\ UNCHANGED <<trie, triedb, diskdb, journalGen, batch, genMarker, genPending, genAbort,
                   flat0, abortLog, Others>>

\* The main loop after a range
AccountRangeEnd ==
    /\ gen.pc = "onAccount"
    /\ gen.accCalls = <<>>
    /\ gen' = IF gen.accExhausted \/ increaseKey(gen.accLast) = NilKey
              THEN [gen EXCEPT !.pc = "complete"]
              ELSE [gen EXCEPT !.pc = "account range", !.accOrigin = increaseKey(gen.accLast),
                               !.accountRange = accountCheckRange,
                               !.accExhausted = FALSE, !.accLast = NilKey]
    /\ UNCHANGED <<trie, triedb, diskdb, journalGen, batch, genMarker, genPending, genAbort,
                   flat0, abortLog, Others>>

\* generate after the main loop: the done record and the batch are written,
\* the marker is set to nil and genPending is closed
Complete ==
    /\ gen.pc = "complete"
    /\ journalGen' = journalProgress(NilMarker)
    /\ diskdb' = WriteBatch(diskdb, batch)
    /\ batch' = <<>>
    /\ genMarker' = NilMarker
    /\ genPending' = "closed"
    /\ gen' = [Ended("done") EXCEPT !.abort = gen.abort]
    /\ UNCHANGED <<trie, triedb, genAbort, flat0, abortLog, Others>>

\* generate after an "aborted" error: the stats are sent to the requester
\* and the goroutine returns
AbortReply ==
    /\ gen.pc = "aborting"
    /\ genAbort' = "idle"
    /\ gen' = Ended("stopped")
    /\ abortLog' = Append(abortLog, genMarker)
    /\ UNCHANGED <<trie, triedb, diskdb, journalGen, batch, genMarker, genPending, flat0, Others>>

\* generate after an error that was no abort: it waits for an abort request,
\* sends the stats to the requester and returns
AbortAfterError ==
    /\ gen.pc = "failed"
    /\ genAbort = "sending"
    /\ genAbort' = "idle"
    /\ gen' = Ended("stopped")
    /\ abortLog' = Append(abortLog, genMarker)
    /\ UNCHANGED <<trie, triedb, diskdb, journalGen, batch, genMarker, genPending, flat0, Others>>

\* generate after completion: it waits for an abort request and replies nil
AbortAfterDone ==
    /\ gen.pc = "done"
    /\ genAbort = "sending"
    /\ genAbort' = "idle"
    /\ gen' = Ended("exited")
    /\ abortLog' = Append(abortLog, genMarker)
    /\ UNCHANGED <<trie, triedb, diskdb, journalGen, batch, genMarker, genPending, flat0, Others>>

\* A caller asks the generator to stop: it sends on genAbort and waits
RequestAbort ==
    /\ genAbort = "idle"
    /\ gen.pc \notin {"new", "stopped", "exited"}
    /\ Len(abortLog) < MaxAborts
    /\ genAbort' = "sending"
    /\ UNCHANGED <<trie, triedb, diskdb, journalGen, batch, genMarker, genPending, gen,
                   flat0, abortLog, Others>>

\* The generator is started again on the disk layer it stopped on
Restart ==
    /\ gen.pc = "stopped"
    /\ gen' = GenLocals(genMarker)
    /\ batch' = <<>>
    /\ UNCHANGED <<trie, triedb, diskdb, journalGen, genMarker, genPending, genAbort,
                   flat0, abortLog, Others>>

\* The tries and the flat states generation starts from
EOA(balance) == FullAccount(0, balance, emptyRoot, emptyCode)

Contract(st) == FullAccount(1, 1, st, "code")

Slim(acc) == SlimAccountRLP(acc.nonce, acc.balance, acc.root.hash, acc.codeHash.hash)

Storage1 == (1 :> 1 @@ 3 :> 1)

Tries == {(1 :> EOA(1) @@ 2 :> Contract(Storage1)),
          (2 :> Contract(Storage1) @@ 3 :> EOA(1))}

\* What a flat account entry may hold before generation: the account of the
\* trie or another account; the entry of account 1 may hold bytes that do
\* not decode
AccountChoices(tr, k) ==
    IF k = 1 THEN (IF Has(tr, k) THEN {Slim(tr[k])} ELSE {}) \cup {CorruptAccount}
    ELSE (IF Has(tr, k) THEN {Slim(tr[k])} ELSE {}) \cup {Slim(EOA(2))}

FlatAccounts(tr) ==
    UNION {{f \in [D -> {Slim(EOA(1)), Slim(EOA(2)), Slim(Contract(Storage1)), CorruptAccount}] :
               \A k \in D : f[k] \in AccountChoices(tr, k)} : D \in SUBSET {1, 2, 3}}

\* What a flat storage entry may hold: the slot of the trie (1) or another
\* value (2); slot 2 of account 2 and the slots of accounts 1 and 3 are in
\* no trie
SlotChoices(p) == IF p = <<2, 1>> THEN {1, 2} ELSE IF p = <<2, 3>> THEN {1} ELSE {2}

FlatStorageOver(pairs) ==
    UNION {{f \in [D -> {1, 2}] : \A p \in D : f[p] \in SlotChoices(p)} : D \in SUBSET pairs}

\* The flat storage generation may start from: any entries of account 2 and
\* at most one entry of another account
FlatStorage ==
    {f \in FlatStorageOver({<<1, 1>>, <<2, 1>>, <<2, 2>>, <<2, 3>>, <<3, 1>>}) :
        ~({<<1, 1>>, <<3, 1>>} \subseteq DOMAIN f)}

\* The databases generateSnapshot is called on
Starts ==
    UNION {{[trie |-> tr, db |-> [accounts |-> acc, storage |-> st]] :
               acc \in FlatAccounts(tr), st \in FlatStorage} : tr \in Tries}

\* Those whose flat storage is of account 2 only, over the first trie
LiveStarts ==
    {x \in Starts : x.trie = (1 :> EOA(1) @@ 2 :> Contract(Storage1))
                    /\ \A p \in DOMAIN x.db.storage : p[1] = 2}

\* A trie database holding every trie, and one holding none
AllTries == [account |-> TRUE, storage |-> TRUE]

NoTries == [account |-> FALSE, storage |-> FALSE]

\* Before generateSnapshot: there is no disk layer and no generator yet
GenInit ==
    /\ trie = EmptyMap
    /\ triedb = NoTries
    /\ diskdb = [accounts |-> EmptyMap, storage |-> EmptyMap]
    /\ flat0 = [accounts |-> EmptyMap, storage |-> EmptyMap]
    /\ journalGen = journalProgress(NilMarker)
    /\ batch = <<>>
    /\ genMarker = NilMarker
    /\ genPending = "none"
    /\ genAbort = "idle"
    /\ gen = Ended("new")
    /\ abortLog = <<>>

\* generateSnapshot on a database holding the flat state db and, of the trie
\* tr and its storage tries, those that tdb tells: the empty marker is
\* journalled, the disk layer is made and generate started
generateSnapshot(tr, tdb, db) ==
    /\ gen.pc = "new"
    /\ trie' = tr
    /\ triedb' = tdb
    /\ diskdb' = db
    /\ flat0' = db
    /\ journalGen' = journalProgress(Marker(<<>>))
    /\ batch' = <<>>
    /\ genMarker' = Marker(<<>>)
    /\ genPending' = "open"
    /\ genAbort' = "idle"
    /\ gen' = GenLocals(Marker(<<>>))
    /\ UNCHANGED <<abortLog, Others>>

GenRun ==
    \/ AccountRange
    \/ OnAccount
    \/ StorageRange
    \/ OnStorage
    \/ StorageRangeEnd
    \/ AccountRangeEnd
    \/ Complete
    \/ AbortReply
    \/ AbortAfterDone
    \/ RequestAbort
    \/ Restart

GenNext ==
    \/ gen.pc = "new" /\ \E x \in Starts : generateSnapshot(x.trie, AllTries, x.db)
    \/ GenRun

GenLiveNext ==
    \/ gen.pc = "new" /\ \E x \in LiveStarts : generateSnapshot(x.trie, AllTries, x.db)
    \/ GenRun

\* The databases of the abort rendezvous: the first trie, flat entries of its
\* own keys only, and a trie database that may lack the state trie, the
\* storage trie or both
AbortStarts ==
    {x \in LiveStarts : DOMAIN x.db.accounts \subseteq {1, 2}
                         /\ DOMAIN x.db.storage \subseteq {<<2, 1>>, <<2, 3>>}}

GenAbortNext ==
    \/ gen.pc = "new" /\ \E x \in AbortStarts : \E tdb \in [account : BOOLEAN, storage : BOOLEAN] :
          generateSnapshot(x.trie, tdb, x.db)
    \/ GenRun
    \/ AbortAfterError

\* While no generator runs, the flat entry of an account is damaged: its
\* bytes no longer decode as a slim account
DamageAccount(k) ==
    /\ gen.pc = "stopped"
    /\ Has(diskdb.accounts, k)
    /\ diskdb.accounts[k] # CorruptAccount
    /\ diskdb' = [diskdb EXCEPT !.accounts = Put(@, k, CorruptAccount)]
    /\ UNCHANGED <<trie, triedb, journalGen, batch, genMarker, genPending, genAbort, gen,
                   flat0, abortLog, Others>>

\* Generation over flat entries that may be damaged before it starts and
\* while it is stopped
GenHealNext ==
    \/ gen.pc = "new" /\ \E x \in AbortStarts : generateSnapshot(x.trie, AllTries, x.db)
    \/ GenRun
    \/ \E k \in HashKeys : DamageAccount(k)

\* batch.Write fails.  In checkAndFlush (559-561) the error is returned before
\* the batch is reset and before genMarker is assigned; it goes up through
\* the callback and generateRange to the main loop, which waits for an abort
\* request unless checkAndFlush had taken one, replies and returns (706-711).
\* After the main loop (725-731) generate logs the error, waits for an abort
\* request, replies and returns.  Nothing of the batch is persisted.
WriteFails ==
    /\ \/ /\ gen.pc = "complete"
          /\ gen' = Ended("failed")
          /\ UNCHANGED <<batch, genAbort>>
       \/ /\ \/ gen.pc = "onAccount" /\ gen.accCalls # <<>> /\ ~Head(gen.accCalls).delete
             \/ gen.pc = "onStorage" /\ gen.stoCalls # <<>> /\ ~Head(gen.stoCalls).delete
          /\ \E c \in {IF gen.pc = "onAccount" THEN Head(gen.accCalls) ELSE Head(gen.stoCalls)} :
             \E put \in {IF gen.pc = "onStorage" THEN <<PutStorage(gen.accountHash, c.key, c.val)>>
                         ELSE IF gen.accMarker # NilKey /\ c.key = gen.accMarker THEN <<>>
                         ELSE <<PutAccount(c.key, SlimAccountRLP(c.val.nonce, c.val.balance,
                                                   c.val.root.hash, c.val.codeHash.hash))>>} :
             \E taken \in {genAbort = "sending"} :
                /\ batch' = IF c.write THEN batch \o put ELSE batch
                /\ ValueSize(batch') > IdealBatchSize \/ gen.abort \/ taken
                /\ genAbort' = IF taken THEN "waiting" ELSE genAbort
                /\ gen' = IF gen.abort \/ taken THEN [Ended("aborting") EXCEPT !.abort = TRUE]
                          ELSE Ended("failed")
    /\ UNCHANGED <<trie, triedb, diskdb, journalGen, genMarker, genPending, flat0, abortLog,
                   Others>>

\* Generation on a database whose batch writes may fail
GenWriteFailNext ==
    \/ gen.pc = "new" /\ \E x \in AbortStarts : generateSnapshot(x.trie, AllTries, x.db)
    \/ GenRun
    \/ AbortAfterError
    \/ WriteFails

(***************************************************************************)
(* PURE FUNCTIONS ON BYTES: increaseKey (generate.go) on the bytes of a    *)
(* key, and the jump destination analysis of package vm: bitvec and        *)
(* codeBitmap.  A byte is an integer of 0..255, a []byte is a record of    *)
(* its bytes b (index i of Go is index i + 1 here) and whether it is nil.  *)
(***************************************************************************)

\* Bounds of the byte models: the bytes and the length of the keys handed to
\* increaseKey, and the shape of the bytecodes handed to codeBitmap (MaxPad
\* one-byte instructions, then one PUSH with any part of its operand, then
\* one of the Trailers).
MaxKeyLen == 3
KeyBytes == {0, 1, 127, 254, 255}
MaxPad == 7

Slice(b) == [nil |-> FALSE, b |-> b]
NilSlice == [nil |-> TRUE, b |-> <<>>]

\* A faulty increaseKey that returns after the last byte, carry or not
increaseKeyNoCarry(key) ==
    IF Len(key.b) = 0 THEN [ret |-> NilSlice, key |-> key]
    ELSE LET k2 == [key EXCEPT !.b[Len(key.b)] = (@ + 1) % 256]
         IN [ret |-> k2, key |-> k2]

\* increaseKey on the bytes of the key: ret is the slice returned, key the
\* caller's slice after the call (the bytes are incremented in place)
increaseKeyBytes(key) ==
    LET RECURSIVE Loop(_, _)
        Loop(i, k) ==
            IF i < 1 THEN [ret |-> NilSlice, key |-> k]
            ELSE LET k2 == [k EXCEPT !.b[i] = (@ + 1) % 256]
                 IN IF k2.b[i] # 0 THEN [ret |-> k2, key |-> k2] ELSE Loop(i - 1, k2)
    IN Loop(Len(key.b), key)

RECURSIVE BytesUpTo(_)
BytesUpTo(n) ==
    IF n = 0 THEN {<<>>}
    ELSE BytesUpTo(n - 1) \cup {Append(b, x) : b \in {c \in BytesUpTo(n - 1) : Len(c) = n - 1},
                                                x \in KeyBytes}

KeyInputs == {NilSlice} \cup {Slice(b) : b \in BytesUpTo(MaxKeyLen)}

\* A call of increaseKey
IncreaseKeyCall(key) ==
    /\ ik' = [called |-> TRUE, arg |-> key] @@ increaseKeyBytes(key)
    /\ UNCHANGED <<bcode, bvec, bpc, bstat, bpanic>>
    /\ UNCHANGED <<journalVars, diffVars, genVars>>

IncreaseKeyNext == \E key \in KeyInputs : IncreaseKeyCall(key)

\* Opcodes of package vm
STOP == 0
PUSH1 == 96
PUSH32 == 127
DUP1 == 128

\* Operations of Go on a byte: |, &, ^x, and the shifts, which give 0 for a
\* count of 8 or more and drop the bits shifted out of the byte
Bit(a, n) == (a \div 2^n) % 2

Or8(a, b) ==
    LET RECURSIVE O(_)
        O(n) == IF n = 8 THEN 0
                ELSE (IF Bit(a, n) = 1 \/ Bit(b, n) = 1 THEN 2^n ELSE 0) + O(n + 1)
    IN O(0)

And8(a, b) ==
    LET RECURSIVE A(_)
        A(n) == IF n = 8 THEN 0
                ELSE (IF Bit(a, n) = 1 /\ Bit(b, n) = 1 THEN 2^n ELSE 0) + A(n + 1)
    IN A(0)

Not8(a) == 255 - a
Shl8(a, k) == IF k >= 8 THEN 0 ELSE (a * 2^k) % 256
Shr8(a, k) == IF k >= 8 THEN 0 ELSE a \div 2^k

lookup == <<128, 64, 32, 16, 8, 4, 2, 1>>

\* (*bits)[i] |= v on the vector of bv, a panic when i is out of range
OrAt(bv, i, v) ==
    IF bv.panic # "" THEN bv
    ELSE IF i >= Len(bv.bits) THEN [bv EXCEPT !.panic = "index out of range"]
    ELSE [bv EXCEPT !.bits[i + 1] = Or8(@, v)]

\* The two statements of set2 .. set7 with their mask
SetMask(bv, pos, mask) ==
    OrAt(OrAt(bv, (pos \div 8) + 1, Shl8(mask, 8 - (pos % 8))), (pos \div 8), Shr8(mask, (pos % 8)))

set(bv, pos) == OrAt(bv, (pos \div 8), lookup[(pos % 8) + 1])
set2(bv, pos) == SetMask(bv, pos, 192)
set3(bv, pos) == SetMask(bv, pos, 224)
set4(bv, pos) == SetMask(bv, pos, 240)
set5(bv, pos) == SetMask(bv, pos, 248)
set6(bv, pos) == SetMask(bv, pos, 252)
set7(bv, pos) == SetMask(bv, pos, 254)

\* A faulty set8 that leaves the following byte alone
set8Low(bv, pos) == OrAt(bv, (pos \div 8), Shr8(255, (pos % 8)))

set8(bv, pos) ==
    OrAt(OrAt(bv, (pos \div 8) + 1, Not8(Shr8(255, (pos % 8)))), (pos \div 8), Shr8(255, (pos % 8)))

\* bitvec.codeSegment
codeSegment(bitvec, pos) == And8(bitvec[(pos \div 8) + 1], Shr8(128, (pos % 8))) = 0

\* A faulty allocation, one byte shorter
codeBitmapTight(c) == [i \in 1..((Len(c) \div 8) + 1 + 3) |-> 0]

\* codeBitmap: the vector it makes, len(code)/8+1+4 zero bytes
codeBitmap(c) == [i \in 1..((Len(c) \div 8) + 1 + 4) |-> 0]

\* codeBitmapInternal: one pass of its loop from pc on, for pc < len(code)
codeBitmapInternal(c, bv, pc0) ==
    LET op == c[pc0 + 1]
        pc1 == pc0 + 1
        RECURSIVE Eights(_, _, _)
        Eights(numbits, b, p) ==
            IF numbits >= 8 THEN Eights(numbits - 8, set8(b, p), p + 8)
            ELSE [numbits |-> numbits, bv |-> b, pc |-> p]
    IN IF op < PUSH1 \/ op > PUSH32 THEN [bv |-> bv, pc |-> pc1]
       ELSE LET e == Eights(op - PUSH1 + 1, bv, pc1)
                b == CASE e.numbits = 1 -> set(e.bv, e.pc)
                       [] e.numbits = 2 -> set2(e.bv, e.pc)
                       [] e.numbits = 3 -> set3(e.bv, e.pc)
                       [] e.numbits = 4 -> set4(e.bv, e.pc)
                       [] e.numbits = 5 -> set5(e.bv, e.pc)
                       [] e.numbits = 6 -> set6(e.bv, e.pc)
                       [] e.numbits = 7 -> set7(e.bv, e.pc)
                       [] OTHER -> e.bv
            IN [bv |-> b, pc |-> e.pc + e.numbits]

Fill(n, b) == [i \in 1..n |-> b]

OperandBytes == {STOP, PUSH1 + 1}
Trailers == {<<>>, <<PUSH1, STOP>>, <<DUP1, PUSH1>>}

Codes ==
    UNION {{Fill(n, STOP) \o <<PUSH1 + w - 1>> \o Fill(m, b) \o t :
               n \in 0..MaxPad, m \in 0..w, b \in OperandBytes, t \in Trailers} : w \in 1..32}

\* codeBitmap(c) is called
CodeBitmapCall(c) ==
    /\ bstat = "idle"
    /\ bcode' = c
    /\ bvec' = codeBitmap(c)
    /\ bpc' = 0
    /\ bstat' = "loop"
    /\ UNCHANGED <<ik, bpanic>>
    /\ UNCHANGED <<journalVars, diffVars, genVars>>

\* One pass of the loop of codeBitmapInternal, or its return
CodeBitmapLoop ==
    /\ bstat = "loop"
    /\ IF bpc < Len(bcode)
       THEN LET r == codeBitmapInternal(bcode, [bits |-> bvec, panic |-> ""], bpc)
            IN /\ bvec' = r.bv.bits
               /\ bpanic' = r.bv.panic
               /\ bpc' = r.pc
               /\ bstat' = IF r.bv.panic = "" THEN "loop" ELSE "panicked"
       ELSE /\ bstat' = "returned"
            /\ UNCHANGED <<bvec, bpc, bpanic>>
    /\ UNCHANGED <<ik, bcode>>
    /\ UNCHANGED <<journalVars, diffVars, genVars>>

CodeBitmapNext ==
    \/ bstat = "idle" /\ \E c \in Codes : CodeBitmapCall(c)
    \/ CodeBitmapLoop

FnInit ==
    /\ ik = [called |-> FALSE, arg |-> NilSlice, ret |-> NilSlice, key |-> NilSlice]
    /\ bcode = <<>>
    /\ bvec = <<>>
    /\ bpc = 0
    /\ bstat = "idle"
    /\ bpanic = ""

(***************************************************************************)
(*                          THE SPECIFICATIONS                             *)
(***************************************************************************)
Init == JournalInit /\ DiffInit /\ GenInit /\ FnInit

JournalSpec == Init /\ [][JournalNext]_vars

RevertSpec == Init /\ [][RevertNext]_vars
RevertSlotSpec == Init /\ [][RevertSlotNext]_vars

IncreaseKeySpec == Init /\ [][IncreaseKeyNext]_vars

CodeBitmapSpec == Init /\ [][CodeBitmapNext]_vars

DiffSpec == Init /\ [][DiffNext]_vars

FlattenSpec == Init /\ [][FlattenNext]_vars

ListSpec == Init /\ [][ListNext]_vars

GenSpec == Init /\ [][GenNext]_vars

GenHealSpec == Init /\ [][GenHealNext]_vars

GenWriteFailSpec == Init /\ [][GenWriteFailNext]_vars

\* The generate goroutine is scheduled as long as it can take a step, and a
\* generator that was stopped is started again
GenStep ==
    \/ AccountRange
    \/ OnAccount
    \/ StorageRange
    \/ OnStorage
    \/ StorageRangeEnd
    \/ AccountRangeEnd
    \/ Complete
    \/ AbortReply
    \/ Restart

GenLiveSpec == Init /\ [][GenLiveNext]_vars /\ WF_vars(GenStep)

\* The steps of the generate goroutine alone, its receives on genAbort
\* included
Generate ==
    \/ AccountRange
    \/ OnAccount
    \/ StorageRange
    \/ OnStorage
    \/ StorageRangeEnd
    \/ AccountRangeEnd
    \/ Complete
    \/ AbortReply
    \/ AbortAfterError
    \/ AbortAfterDone

\* The generate goroutine is scheduled as long as it can take a step; nobody
\* is bound to ask for an abort or to start a stopped generator again
GenAbortSpec == Init /\ [][GenAbortNext]_vars /\ WF_vars(Generate)


(***************************************************************************)
(*                      THE JOURNAL'S PROPERTIES                           *)
(***************************************************************************)

\* A RevertToSnapshot(id) that was in range and returned
Reverted ==
    /\ jlast.op = "RevertToSnapshot"
    /\ jlast.id < jlast.depth
    /\ jpanic = ""

\* C1 -- journal revert law: after id = Snapshot(); C; RevertToSnapshot(id),
\* the state (objects, storage, transient storage, logs, access list, refund)
\* equals the state just before the Snapshot() that returned id, for every
\* id and every number of scopes opened before or inside C.
C1_RevertLaw == Reverted => s = jlast.expected

\* C2 -- RevertToSnapshot(id) on a journal of depth d > id reverts exactly the
\* scopes id, ..., d-1, newest first, none below id, and leaves the depth id.
C2_RevertsScopesTopDown ==
    Reverted =>
        /\ jlast.order = [n \in 1..(jlast.depth - jlast.id) |-> jlast.depth - n]
        /\ Depth = jlast.id

\* C18: RevertToSnapshot(id) with id >= depth panics, and the journal's
\* entries, its dirties and the StateDB are as they were before the call.
C18_RevertOutOfRangePanics ==
    [][(jlast'.op = "RevertToSnapshot" /\ jops' = jops + 1 /\ jlast'.id >= Depth) =>
           (jpanic' # "" /\ j' = j /\ s' = s)]_vars

\* An out-of-range revert has panicked on a journal with an open scope that
\* holds a change, over a StateDB that is not the initial one
C18_Witness ==
    /\ jlast.op = "RevertToSnapshot"
    /\ jlast.id >= Depth
    /\ jpanic = "revision id cannot be reverted"
    /\ Depth > 0
    /\ j.entries[Depth] # newScopedJournal
    /\ s # InitStateDB

\* The recorders of account changes
AccountOps == {"JournalNonceChange", "JournalBalanceChange", "JournalSetCode",
               "JournalCreate", "JournalDestruct", "JournalTouch"}

\* dirties[addr], zero when the address is absent
DirtyCount(d, addr) == IF Has(d, addr) THEN d[addr] ELSE 0

\* C19: with a scope open, an account-change recorder does not panic.  The
\* first call for an address in the scope stores the pre-image (the tombstone
\* for a creation) in the top scope and adds one to dirties[addr] (one more
\* for a touch of ripemd); a later call for the address leaves the scope's
\* record as it is and adds nothing but that extra of the touch.
C19_FirstChangeRecorded ==
    [][(jops' = jops + 1 /\ jlast'.op \in AccountOps /\ Depth > 0) =>
          LET top == j.entries[Depth].accountChanges.m
              top2 == j'.entries[Depth].accountChanges.m
              touch == IF jlast'.op = "JournalTouch" THEN 1 ELSE 0
          IN /\ jpanic' = ""
             /\ Len(j'.entries) = Depth
             /\ \/ /\ top2 = top
                   /\ \A a \in Addrs :
                         DirtyCount(j'.dirties, a) - DirtyCount(j.dirties, a)
                             \in (IF a = ripemd THEN {0, touch} ELSE {0})
                \/ \E addr \in Addrs \ DOMAIN top :
                      /\ DOMAIN top2 = DOMAIN top \cup {addr}
                      /\ \A a \in DOMAIN top : top2[a] = top[a]
                      /\ top2[addr].tomb <=> jlast'.op = "JournalCreate"
                      /\ DirtyCount(j'.dirties, addr) - DirtyCount(j.dirties, addr)
                             = 1 + (IF addr = ripemd THEN touch ELSE 0)
                      /\ \A a \in Addrs \ {addr} :
                             DirtyCount(j'.dirties, a) = DirtyCount(j.dirties, a)]_vars

\* The live scopes that recorded an account change for addr
RecordedIn(addr) == {i \in 1..Depth : Has(j.entries[i].accountChanges.m, addr)}

AccountKeys(id) == DOMAIN AccountDataOf(Heap, id)

StorageKeys(id) ==
    {p \in AccountHashes \X SlotHashes : Has(SlotsOf(Heap, id, p[1]), p[2])}

\* A layer on which Prepare has returned and that reads can use: its filter
\* is built, its lock is free, and neither it nor an ancestor is stale or locked
Prepared(id) ==
    /\ ~layers[id].cumulative.nil
    /\ \A l \in ChainSet(id) : layers[l].lock = "" /\ ~layers[l].stale

\* C3 -- stale monotonicity of reads: every AccountRLP and Storage call on a
\* stale layer (here: one whose filter is built and whose lock is free) fails
\* with ErrSnapshotStale, for every key, on a filter hit or miss.
C3_StaleReadsFail ==
    \A id \in Handles :
        (layers[id].stale /\ ~layers[id].cumulative.nil /\ layers[id].lock = "") =>
            /\ \A h \in AccountHashes : AccountRLP(Heap, id, h).err = ErrSnapshotStale
            /\ \A p \in AccountHashes \X SlotHashes :
                   Storage(Heap, id, p[1], p[2]).err = ErrSnapshotStale

\* C8 -- bloom soundness: when Prepare has returned on a (live) layer L, the
\* cumulative filter of L reports every account key and every (account, slot)
\* key stored in L or in any diff layer ancestor of L.
C8_BloomSound ==
    (dlast.op = "Prepare" /\ dlast.ret = dlast.id /\ ~layers[dlast.id].stale) =>
        \A l \in ChainSet(dlast.id) :
            /\ \A h \in AccountKeys(l) :
                   BloomContains(layers[dlast.id].cumulative.bits, AccountSum64(h))
            /\ \A p \in StorageKeys(l) :
                   BloomContains(layers[dlast.id].cumulative.bits, StorageSum64(p[1], p[2]))

\* C9 -- every key of a live layer's accountData and storageData is reported
\* by that layer's own diffed filter, for layers made by newDiffLayer/Update
\* and for layers returned by flatten.
C9_OwnFilterCoversData ==
    \A id \in Handles :
        ~layers[id].stale =>
            /\ \A h \in AccountKeys(id) : BloomContains(layers[id].diffed, AccountSum64(h))
            /\ \A p \in StorageKeys(id) :
                   BloomContains(layers[id].diffed, StorageSum64(p[1], p[2]))

\* The nearest layer of the chain of id with an entry for account a in its
\* storageData; DiskHandle when there is none
NearestEntry(id, a) ==
    LET c == Chain(id)
        I == {i \in 1..Len(c) : Has(StorageDataOf(Heap, c[i]), a)}
    IN IF I = {} THEN DiskHandle ELSE c[CHOOSE i \in I : \A k \in I : i <= k]

Wiped(id, a) ==
    /\ NearestEntry(id, a) # DiskHandle
    /\ StorageDataOf(Heap, NearestEntry(id, a))[a] = NilRef

\* C10 -- when the nearest layer of a prepared, live chain with an entry for
\* account a holds a nil inner map, Storage(a, sl) on the top layer returns
\* absent (nil, no error) for every slot, never a lower layer's or the disk's value.
C10_WipedStorageAbsent ==
    \A id \in Handles : \A a \in AccountHashes :
        (Prepared(id) /\ Wiped(id, a)) =>
            \A sl \in SlotHashes : Storage(Heap, id, a, sl) = Result(0, "")

\* C11 -- at most one flatten into a given parent ever succeeds, and the
\* flatten that finds its parent stale panics without a change to the account
\* and storage maps, also when the calls run concurrently.
C11_OneFlattenPerParent ==
    [][/\ \A a, b \in 1..Len(flog') : flog'[a] = flog'[b] => a = b
       /\ (dpanic = "" /\ dpanic' # "") =>
              (accMaps' = accMaps /\ stoMaps' = stoMaps /\ slotMaps' = slotMaps)]_vars

\* C11 witness: a flatten panicked on a parent that another goroutine, still
\* inside its own flatten, had flattened into
C11_Witness ==
    /\ dpanic = "parent diff layer is stale"
    /\ \E g, h \in Goroutines :
           /\ fl[g].pc = "panicked"
           /\ fl[h].pc = "merging"
           /\ fl[g].parent \in {flog[i] : i \in 1..Len(flog)}

\* The content of a layer's maps: the account map, and per account of the
\* storage map the inner map or nil
MapsOf(H, id) ==
    [accounts |-> AccountDataOf(H, id),
     storage |-> [a \in DOMAIN StorageDataOf(H, id) |->
                     IF StorageDataOf(H, id)[a] = NilRef THEN [nil |-> TRUE, m |-> EmptyMap]
                     ELSE [nil |-> FALSE, m |-> H.slotMaps[StorageDataOf(H, id)[a]]]]]

\* The chain <<top, mid, low>> flattened bottom-up, as flatten(top) does it:
\* mid into low, then top into the result
BottomUp(top, mid, low) ==
    LET H == flatten(Heap, top)
    IN MapsOf(H, H.ret)

\* The same chain flattened in the other order: top into mid, then the result
\* (whose parent is low) into low
TopDown(top, mid, low) ==
    LET H1 == FlattenMerge(Heap, top, mid)
        H2 == FlattenMerge(H1, H1.ret, low)
    IN MapsOf(H2, H2.ret)

\* C12 -- flatten associativity: for a chain of three live diff layers over
\* the disk layer, flattening bottom-up gives the same accountData and
\* storageData as flattening the upper two first and the result into the lowest.
C12_FlattenAssociative ==
    \A id \in Handles :
        (Len(Chain(id)) = 3 /\ \A l \in ChainSet(id) : ~layers[l].stale /\ layers[l].lock = "") =>
            BottomUp(Chain(id)[1], Chain(id)[2], Chain(id)[3])
                = TopDown(Chain(id)[1], Chain(id)[2], Chain(id)[3])

\* No lock of the chain of a layer is held
Unlocked(id) == \A l \in ChainSet(id) : layers[l].lock = ""

\* The first place of a layer's chain whose layer is stale or holds an entry
\* for account h; 0 when there is none
FirstStop(id, h) ==
    LET c == Chain(id)
        I == {i \in 1..Len(c) : layers[c[i]].stale \/ Has(AccountDataOf(Heap, c[i]), h)}
    IN IF I = {} THEN 0 ELSE CHOOSE i \in I : \A k \in I : i <= k

\* What the walk from a layer is to return for account h: the entry of the
\* nearest layer that has one, be it empty; the disk layer's answer when no
\* layer has one; ErrSnapshotStale when a stale layer is met first
NearestAccount(id, h) ==
    LET c == Chain(id)
        i == FirstStop(id, h)
    IN IF i = 0 THEN DiskAccountRLP(h)
       ELSE IF layers[c[i]].stale THEN Result(0, ErrSnapshotStale)
       ELSE Result(AccountDataOf(Heap, c[i])[h], "")

\* C22: on a filter hit AccountRLP returns what the walk returns, and the
\* walk from any layer returns the entry of the nearest layer holding the
\* account (an empty entry as it is, no lower layer asked), the disk layer's
\* answer when no diff layer holds it, and ErrSnapshotStale when it comes to
\* a stale layer.
C22_NearestLayerWins ==
    \A id \in Handles : Unlocked(id) =>
        \A h \in AccountHashes :
            /\ accountRLP(Heap, id, h) = NearestAccount(id, h)
            /\ (~layers[id].cumulative.nil
                   /\ BloomContains(layers[id].cumulative.bits, AccountSum64(h)))
                => AccountRLP(Heap, id, h) = NearestAccount(id, h)

\* A walk over three layers ends at the middle one, whose entry is empty and
\* hides a value of the lowest layer; and a prepared layer's filter hits
C22_Witness ==
    /\ \E id \in Handles, h \in AccountHashes :
          /\ Unlocked(id) /\ Len(Chain(id)) = 3 /\ FirstStop(id, h) = 2
          /\ NearestAccount(id, h) = Result(0, "")
          /\ Has(AccountDataOf(Heap, Chain(id)[3]), h)
          /\ AccountDataOf(Heap, Chain(id)[3])[h] # 0
    /\ \E id \in Handles, h \in AccountHashes :
          /\ Unlocked(id) /\ ~layers[id].cumulative.nil
          /\ BloomContains(layers[id].cumulative.bits, AccountSum64(h))
          /\ FirstStop(id, h) = 1

\* C23: the filter is transparent.  On a prepared layer whose chain is live
\* the guarded reads AccountRLP and Storage return what the walks accountRLP
\* and storage return, for every account and every slot: a filter miss
\* hides no value, no tombstone and no wiped storage of a layer of the chain.
C23_BloomTransparent ==
    \A id \in Handles : Prepared(id) =>
        /\ \A h \in AccountHashes : AccountRLP(Heap, id, h) = accountRLP(Heap, id, h)
        /\ \A p \in AccountHashes \X SlotHashes :
               Storage(Heap, id, p[1], p[2]) = storage(Heap, id, p[1], p[2])

(***************************************************************************)
(*                      THE GENERATOR'S PROPERTIES                         *)
(***************************************************************************)

\* The generator is about to call generateRange, and the arguments of the
\* proveRange call it starts with
AtRange == gen.pc \in {"account range", "storage range"}

RangeCall ==
    IF gen.pc = "account range"
    THEN [tr |-> trie, entries |-> diskdb.accounts, kind |-> "account",
          origin |-> gen.accOrigin, max |-> gen.accountRange]
    ELSE [tr |-> gen.root, entries |-> StorageEntries(diskdb, gen.accountHash),
          kind |-> "storage", origin |-> gen.storeOrigin, max |-> storageCheckRange]

RangeResult ==
    proveRange(triedb, RangeCall.tr, RangeCall.entries, RangeCall.kind, RangeCall.origin,
               RangeCall.max)

\* The (non-empty) batch of a result is exactly the content of the trie in
\* [origin, last]
BatchMatches(tr, origin, r) ==
    /\ r.keys # {}
    /\ r.keys = {k \in DOMAIN tr : (origin = NilKey \/ k >= origin) /\ k <= r.last}
    /\ \A k \in r.keys : r.vals[k] = tr[k]

TrieHasMore(tr, last) == \E k \in DOMAIN tr : k > last

\* The call takes the whole-batch path: origin is nil and the disk iterator
\* was exhausted
WholeBatch ==
    /\ RangeCall.origin = NilKey
    /\ Cardinality(DOMAIN RangeCall.entries) <= RangeCall.max

\* C13 -- range-prove completeness as stated: if the collected batch exactly
\* matches the trie over [origin, last], proveRange returns a valid result and
\* trieMore is true exactly when the trie has a key greater than last, on the
\* edge-proof path and on the whole-batch path.
C13_RangeProveComplete ==
    (AtRange /\ BatchMatches(RangeCall.tr, RangeCall.origin, RangeResult)) =>
        /\ RangeResult.valid
        /\ RangeResult.trieMore <=> TrieHasMore(RangeCall.tr, RangeResult.last)

\* C13 amended -- on the edge-proof path a matching batch is valid and
\* trieMore tells whether the trie has a key greater than last; on the
\* whole-batch path trieMore is false and a matching batch is valid exactly
\* when the trie has no key greater than last.
C13_RangeProveCompleteByPath ==
    (AtRange /\ BatchMatches(RangeCall.tr, RangeCall.origin, RangeResult)) =>
        IF WholeBatch
        THEN /\ ~RangeResult.trieMore
             /\ RangeResult.valid <=> ~TrieHasMore(RangeCall.tr, RangeResult.last)
        ELSE /\ RangeResult.valid
             /\ RangeResult.trieMore <=> TrieHasMore(RangeCall.tr, RangeResult.last)

\* C13 witness: a matching batch on the edge-proof path with more of the trie
\* to come
C13_Witness ==
    /\ AtRange
    /\ BatchMatches(RangeCall.tr, RangeCall.origin, RangeResult)
    /\ ~WholeBatch
    /\ RangeResult.valid
    /\ RangeResult.trieMore

\* The keys of a sequence of callbacks are strictly ascending
Ascending(calls) == \A a, b \in 1..Len(calls) : a < b => calls[a].key < calls[b].key

\* C15: the onState callbacks of one generateRange step, those of a proved
\* range and those of the trie iteration alike, are in strictly ascending key
\* order, so that no key gets two callbacks.  (accCalls and stoCalls are the
\* callbacks of the current step that are still to run.)
C15_CallbacksAscend == Ascending(gen.accCalls) /\ Ascending(gen.stoCalls)

\* A trie iteration with three callbacks or more, among them a deletion, a
\* write and a leaf whose flat entry is correct
C15_Witness ==
    /\ gen.pc = "onAccount"
    /\ Len(gen.accCalls) >= 3
    /\ \E a, b, c \in 1..Len(gen.accCalls) :
          /\ gen.accCalls[a].delete
          /\ gen.accCalls[b].write
          /\ ~gen.accCalls[c].write /\ ~gen.accCalls[c].delete

\* The flat state as the write batch will leave it
Effective == WriteBatch(diskdb, batch)

\* The account range step has run all its callbacks
AccountStepEnded == gen.pc = "onAccount" /\ gen.accCalls = <<>>

\* C16: a flat account value that does not convert to the full format is
\* healed within its range step.  When the callbacks of an account range
\* have run, the flat entry of every account of the trie from the origin of
\* the range to its last key is the slim encoding of the trie's account, be
\* the account the one of the resume marker or not.
C16_CorruptHealed ==
    AccountStepEnded =>
        \A k \in DOMAIN trie :
            ((gen.accOrigin = NilKey \/ k >= gen.accOrigin)
                /\ gen.accLast # NilKey /\ k <= gen.accLast)
            => (Has(Effective.accounts, k) /\ Effective.accounts[k] = Slim(trie[k]))

\* The generate goroutine runs: it was started and has not returned
Generating == gen.pc \notin {"new", "stopped", "exited"}

\* The generate goroutine has returned (normally or after an abort)
Returned == gen.pc \in {"stopped", "exited"}

OpenFails ==
    /\ AtRange
    /\ ~trieNew(triedb, RangeCall.kind, RangeCall.tr)
    /\ ~(WholeBatch /\ RangeResult.valid)

Completed == genMarker.nil /\ journalGen.done /\ genPending = "closed"

\* C4 -- generator convergence: from any trie, any flat state and any marker
\* a stopped generator left, once no abort is requested any more the
\* generator sets genMarker to nil, persists the done record and closes
\* genPending after finitely many steps.
C4_Converges == (gen.pc # "new") ~> Completed

\* C4 witness: generation completed after it was stopped at an account and
\* started again
C4_Witness == Completed /\ abortLog # <<>> /\ Len(abortLog[1].loc) = 1 /\ diskdb # flat0

\* The flat state that holds exactly the leaves of the tries
FlatOfTrie(tr) ==
    [accounts |-> [k \in DOMAIN tr |-> Slim(tr[k])],
     storage |-> [p \in {q \in HashKeys \X HashKeys :
                            Has(tr, q[1]) /\ Has(tr[q[1]].root.hash, q[2])} |->
                     tr[p[1]].root.hash[p[2]]]]

\* C5 -- whenever generation is marked complete the flat state equals the
\* trie exactly: every account and storage leaf has its flat entry with the
\* matching value, and no flat account or storage entry exists for a key
\* absent from the trie.
C5_FlatEqualsTrie == Completed => diskdb = FlatOfTrie(trie)

\* The flat storage entries no run touches: those of an account that is
\* neither a leaf of the trie nor a flat account entry
Dangling(tr, db) ==
    {p \in DOMAIN db.storage : ~Has(tr, p[1]) /\ ~Has(db.accounts, p[1])}

\* The flat state an uninterrupted run ends with: the leaves of the tries and
\* the dangling storage entries it started with
FinalOf(tr, db) ==
    [FlatOfTrie(tr) EXCEPT !.storage =
        [p \in (DOMAIN @) \cup Dangling(tr, db) |->
            IF p \in DOMAIN @ THEN @[p] ELSE db.storage[p]]]

\* C6 -- resume safety: a run that was stopped at any callback and started
\* again from the persisted marker, any number of times, completes with the
\* same flat account and storage entries as the uninterrupted run over the
\* same trie and the same initial flat state.
C6_ResumeSafe == Completed => diskdb = FinalOf(trie, flat0)

\* C6 witness: generation completed after it was stopped inside the storage
\* of an account and started again, and it changed the flat state
C6_Witness == Completed /\ abortLog # <<>> /\ Len(abortLog[1].loc) = 2 /\ diskdb # flat0

\* The order of markers: lexicographic on locations, a location before its
\* extensions, and the nil marker of a complete snapshot last
LocLeq(a, b) ==
    \/ a = <<>>
    \/ b # <<>> /\ a[1] < b[1]
    \/ b # <<>> /\ a[1] = b[1] /\ (Len(a) = 1 \/ (Len(b) = 2 /\ a[2] <= b[2]))

RecLeq(a, b) == b.done \/ (~a.done /\ LocLeq(a.marker, b.marker))

\* C7 -- marker monotonicity: every marker written to the persisted generator
\* record and every value assigned to genMarker is greater than or equal to
\* the marker persisted before, across aborts and restarts.
C7_MarkerMonotone ==
    [][gen.pc # "new" =>
           /\ RecLeq(journalGen, journalGen')
           /\ RecLeq(journalGen, journalProgress(genMarker'))]_vars

\* C21: a run started from a marker of an account and a slot sweeps the
\* storage of that account from the slot after the marker's slot, so that the
\* marker's slot is not delivered to onStorage again; the sweep of any other
\* account starts at the beginning of its storage.
C21_ResumeAfterMarkerSlot ==
    [][(gen.pc = "onAccount" /\ gen'.pc = "storage range") =>
          IF gen.accMarker # NilKey /\ gen'.accountHash = gen.accMarker
                /\ Len(genMarker.loc) = 2
          THEN gen'.storeOrigin = increaseKey(genMarker.loc[2])
          ELSE gen'.storeOrigin = NilKey]_vars

\* The maps of parent P overlaid by those of child C: the accounts entry by
\* entry; the storage of an account by C's inner map when P has none or a nil
\* one or when C's is nil, and slot by slot otherwise
Overlaid(P, C) ==
    [accounts |-> [h \in (DOMAIN P.accounts) \cup (DOMAIN C.accounts) |->
                      IF Has(C.accounts, h) THEN C.accounts[h] ELSE P.accounts[h]],
     storage |-> [a \in (DOMAIN P.storage) \cup (DOMAIN C.storage) |->
                     IF ~Has(C.storage, a) THEN P.storage[a]
                     ELSE IF ~Has(P.storage, a) \/ P.storage[a].nil \/ C.storage[a].nil
                          THEN C.storage[a]
                          ELSE [nil |-> FALSE,
                                m |-> [sl \in (DOMAIN P.storage[a].m) \cup (DOMAIN C.storage[a].m) |->
                                          IF Has(C.storage[a].m, sl) THEN C.storage[a].m[sl]
                                          ELSE P.storage[a].m[sl]]]]]

\* The heap in which the parent of layer id is ready to be written into: the
\* heap itself when the parent lies over the disk layer, else the heap after
\* the parent's own flatten, whose ret is the layer written into
ParentHeap(id) ==
    IF IsDiff(layers[layers[id].parent].parent)
    THEN flatten(Heap, layers[id].parent)
    ELSE [Heap EXCEPT !.ret = layers[id].parent]

\* C24 -- a flatten of child C into diff parent P that returns leaves P stale
\* and returns a layer with P's maps overlaid by C's, P's parent and origin,
\* C's root and the sum of the two memories; a flatten of a layer whose parent
\* is not a diff layer returns the layer and changes no layer.
C24_FlattenMerges ==
    [][/\ (dlast'.op = "flatten" /\ dlast'.ret > 0 /\ dlast' # dlast) =>
              LET C == dlast'.id
                  HP == ParentHeap(C)
                  P == HP.ret
                  R == dlast'.ret
              IN /\ layers'[P].stale
                 /\ MapsOf(Heap', R) = Overlaid(MapsOf(HP, P), MapsOf(Heap, C))
                 /\ layers'[R].parent = HP.layers[P].parent
                 /\ layers'[R].origin = HP.layers[P].origin
                 /\ layers'[R].root = layers[C].root
                 /\ layers'[R].memory = HP.layers[P].memory + layers[C].memory
                 /\ ~layers'[R].stale
       /\ \A id \in Handles :
              ~IsDiff(layers[id].parent) => flatten(Heap, id) = [Heap EXCEPT !.ret = id]]_vars

\* C24 witness: a flatten returned a layer in which a slot of the parent and
\* a slot of the child lie side by side in the storage of account 1, and the
\* parent is stale
C24_Witness ==
    /\ dlast.op = "flatten" /\ dlast.ret > 0
    /\ LET R == MapsOf(Heap, dlast.ret)
           C == MapsOf(Heap, dlast.id)
       IN /\ Has(R.storage, 1) /\ Has(C.storage, 1)
          /\ ~R.storage[1].nil /\ ~C.storage[1].nil
          /\ DOMAIN R.storage[1].m = SlotHashes
          /\ DOMAIN C.storage[1].m # SlotHashes
          /\ layers[layers[dlast.id].parent].stale

\* The heap in which layer id has been through Prepare
PreparedHeap(H, id) ==
    [H EXCEPT !.layers[id] = PrepareLayer(@, IF IsDiff(@.parent) THEN H.layers[@.parent] ELSE @)]

\* C25 -- flatten preserves reads: after a flatten of a live child returned,
\* every account read and every slot read through the returned layer, by the
\* walk and (after Prepare) by AccountRLP and Storage, gives what the walk
\* from the child over its un-flattened chain gave before the flatten.
C25_FlattenPreservesReads ==
    [][(/\ dlast'.op = "flatten" /\ dlast'.ret > 0 /\ dlast' # dlast
        /\ ~layers[dlast'.id].stale /\ Unlocked(dlast'.id)) =>
           LET C == dlast'.id
               R == dlast'.ret
               H2 == PreparedHeap(Heap', R)
           IN /\ \A h \in AccountHashes :
                     /\ accountRLP(Heap', R, h) = accountRLP(Heap, C, h)
                     /\ AccountRLP(H2, R, h) = accountRLP(Heap, C, h)
              /\ \A p \in AccountHashes \X SlotHashes :
                     /\ storage(Heap', R, p[1], p[2]) = storage(Heap, C, p[1], p[2])
                     /\ Storage(H2, R, p[1], p[2]) = storage(Heap, C, p[1], p[2])]_vars

\* What the current generateRange call returns
RangeReturn ==
    generateRange(triedb, RangeCall.tr, RangeCall.entries, RangeCall.kind, RangeCall.origin,
                  RangeCall.max, IF RangeCall.kind = "account" THEN NilAccount ELSE NilSlot)

\* The call takes the fallback path: the proof failed and the trie iteration
\* has its trie
Fallback ==
    /\ AtRange
    /\ ~RangeResult.err /\ ~RangeResult.valid
    /\ trieNew(triedb, RangeCall.kind, RangeCall.tr)

\* The leaves of the trie of the call in [origin, last], last nil for no bound
TrieInRange ==
    {k \in DOMAIN RangeCall.tr : /\ RangeCall.origin = NilKey \/ k >= RangeCall.origin
                                 /\ RangeResult.last = NilKey \/ k <= RangeResult.last}

\* A flat state after the callbacks have been applied to it in order: a delete
\* removes the key, a write puts the value, anything else leaves the key alone
RECURSIVE ApplyCalls(_, _)
ApplyCalls(m, calls) ==
    IF calls = <<>> THEN m
    ELSE ApplyCalls(IF Head(calls).delete THEN Del(m, Head(calls).key)
                    ELSE IF Head(calls).write THEN Put(m, Head(calls).key, Head(calls).val)
                    ELSE m,
                    Tail(calls))

\* C26 -- the fallback path of generateRange over the collected batch S and the
\* trie T: each key of S absent from T gets exactly one callback, a delete;
\* each key of T in [origin, last] gets exactly one callback, not a delete,
\* with T's value and write exactly when S lacks the key or holds another
\* value; there is no other callback; the callbacks applied to S give T on
\* [origin, last]; with S empty every leaf from origin on is written.
C26_FallbackCallbacks ==
    Fallback =>
        LET S == RangeResult
            T == RangeCall.tr
            calls == RangeReturn.calls
            Of(k) == {i \in 1..Len(calls) : calls[i].key = k}
        IN /\ \A k \in S.keys \ DOMAIN T :
                  Cardinality(Of(k)) = 1 /\ \A i \in Of(k) : calls[i].delete
           /\ \A k \in TrieInRange :
                  /\ Cardinality(Of(k)) = 1
                  /\ \A i \in Of(k) :
                         /\ ~calls[i].delete
                         /\ calls[i].val = T[k]
                         /\ calls[i].write <=> (k \notin S.keys \/ S.vals[k] # T[k])
           /\ \A i \in 1..Len(calls) : calls[i].key \in (S.keys \ DOMAIN T) \cup TrieInRange
           /\ ApplyCalls(S.vals, calls) = [k \in TrieInRange |-> T[k]]
           /\ S.keys = {} =>
                  /\ S.last = NilKey
                  /\ \A k \in DOMAIN T : (RangeCall.origin = NilKey \/ k >= RangeCall.origin) =>
                         \E i \in 1..Len(calls) : calls[i] = Call(k, T[k], TRUE, FALSE)

\* C26 witness: a fallback call whose callbacks delete one flat key, write a
\* leaf and leave a flat entry that was right
C26_Witness ==
    /\ Fallback
    /\ \E a, b, c \in 1..Len(RangeReturn.calls) :
           /\ RangeReturn.calls[a].delete
           /\ ~RangeReturn.calls[b].delete /\ RangeReturn.calls[b].write
           /\ ~RangeReturn.calls[c].delete /\ ~RangeReturn.calls[c].write

\* The call's proof is valid
Proved == AtRange /\ ~RangeResult.err /\ RangeResult.valid

\* The flat entries of the call from origin on
FlatFromOrigin ==
    {k \in DOMAIN RangeCall.entries : RangeCall.origin = NilKey \/ k >= RangeCall.origin}

\* C27 -- with a valid range proof generateRange delivers the collected
\* entries, the first max flat entries from origin on, each once, in order,
\* with write = false and delete = false and nothing else (no leaf of the
\* trie is delivered), and reports exhausted exactly when no flat entry lies
\* past the batch (diskMore) and the proof reported no more of the trie
\* (trieMore).
C27_ProvedRangeDelivered ==
    Proved =>
        LET S == RangeResult
            calls == RangeReturn.calls
        IN /\ ~RangeReturn.err
           /\ S.keys = {k \in FlatFromOrigin :
                           Cardinality({x \in FlatFromOrigin : x < k}) < RangeCall.max}
           /\ Len(calls) = Cardinality(S.keys)
           /\ Ascending(calls)
           /\ \A i \in 1..Len(calls) :
                  /\ calls[i].key \in S.keys
                  /\ calls[i] = Call(calls[i].key, S.vals[calls[i].key], FALSE, FALSE)
           /\ S.diskMore <=> FlatFromOrigin # S.keys
           /\ RangeReturn.exhausted <=> (~S.diskMore /\ ~S.trieMore)
           /\ RangeReturn.last = S.last

\* C27 witness: a proved range of two entries with more to come, on the disk
\* or in the trie
C27_Witness ==
    /\ Proved
    /\ Len(RangeReturn.calls) = 2
    /\ ~RangeReturn.exhausted
    /\ RangeResult.diskMore \/ RangeResult.trieMore

\* The step in which the generator leaves its main loop
LeavesLoop == gen.pc # "complete" /\ gen'.pc = "complete"

\* A step that sets a mark of completion: the done record, the nil marker or
\* the closed genPending
MarksComplete ==
    \/ ~journalGen.done /\ journalGen'.done
    \/ ~genMarker.nil /\ genMarker'.nil
    \/ genPending # "closed" /\ genPending' = "closed"

\* The marks of completion are set together, by the generator that has left
\* its main loop, which then waits on genAbort
MarkedAfterLoop ==
    MarksComplete =>
        /\ gen.pc = "complete" /\ gen'.pc = "done"
        /\ journalGen'.done /\ genMarker'.nil /\ genPending' = "closed"

\* C28 -- as stated: the generator leaves its main loop and marks generation
\* complete only when the account range reported exhausted and the successor
\* of last overflows.
C28_CompleteOnlyAtOverflow ==
    [][/\ LeavesLoop => (/\ gen.pc = "onAccount" /\ gen.accCalls = <<>>
                         /\ gen.accExhausted /\ increaseKey(gen.accLast) = NilKey)
       /\ MarkedAfterLoop]_vars

\* C28 amended -- the generator leaves its main loop and marks generation
\* complete only when the account range, all its callbacks done, reported
\* exhausted or the successor of last overflows.
C28_CompleteOnlyWhenExhausted ==
    [][/\ LeavesLoop => (/\ gen.pc = "onAccount" /\ gen.accCalls = <<>>
                         /\ gen.accExhausted \/ increaseKey(gen.accLast) = NilKey)
       /\ MarkedAfterLoop]_vars

\* C28 witness: the generator has left the main loop after an exhausted range
\* whose last key has a successor
C28_Witness ==
    /\ gen.pc = "complete"
    /\ gen.accExhausted
    /\ gen.accLast # NilKey /\ gen.accLast < KeyMax
    /\ increaseKey(gen.accLast) # NilKey

\* A run of generate starts: from generateSnapshot or again on a stopped layer
RunStarts == gen.pc \in {"new", "stopped"} /\ gen'.pc = "account range"

\* The main loop goes round: a further account range of the same run
LoopGoesOn == gen.pc = "onAccount" /\ gen'.pc = "account range"

\* The flat account entries a range call with the given origin and capacity
\* collects
Collected(origin, capacity) ==
    LET from == {k \in DOMAIN diskdb.accounts : origin = NilKey \/ k >= origin}
    IN {k \in from : Cardinality({x \in from : x < k}) < capacity}

\* C29 -- the account range is called with capacity 1 exactly in the first
\* step of a run resumed from a non-empty marker, and with accountCheckRange
\* in the first step of a run that starts from the empty marker and in every
\* step after a successful one; the call collects that many flat entries (or
\* all there are from its origin on).
C29_AccountRangeCapacity ==
    [][LET capacity == IF RunStarts /\ Len(genMarker'.loc) > 0 THEN 1 ELSE accountCheckRange
       IN /\ (RunStarts \/ LoopGoesOn) => gen'.accountRange = capacity
          /\ (gen.pc = "account range" /\ gen'.pc = "account range") =>
                 gen'.accountRange = gen.accountRange
          /\ (gen.pc = "account range" /\ gen'.pc = "onAccount") =>
                 LET got == Collected(gen.accOrigin, gen.accountRange)
                 IN gen'.accLast = IF got = {} THEN NilKey
                                   ELSE CHOOSE k \in got : \A x \in got : x <= k]_vars

\* C29 witness: a run resumed from a non-empty marker is about to call its
\* first account range, with capacity 1 and two flat entries from its origin on
C29_Witness ==
    /\ gen.pc = "account range"
    /\ abortLog # <<>> /\ Len(genMarker.loc) > 0
    /\ gen.accountRange = 1
    /\ gen.accOrigin = genMarker.loc[1]
    /\ Cardinality(Collected(gen.accOrigin, accountCheckRange)) = 2

\* The flat entries at the account keys A and the storage keys P are those of
\* the trie: each leaf has its entry with the leaf's value and there is no
\* other entry
AgreesOn(db, tr, A, P) ==
    /\ \A k \in A : /\ Has(db.accounts, k) <=> Has(tr, k)
                    /\ Has(tr, k) => db.accounts[k] = Slim(tr[k])
    /\ \A p \in P : /\ Has(db.storage, p) <=> Has(FlatOfTrie(tr).storage, p)
                    /\ Has(db.storage, p) => db.storage[p] = FlatOfTrie(tr).storage[p]

\* What a persisted marker covers: the accounts up to its account part, the
\* storage of the accounts below it and, for a marker with a slot part, the
\* storage of its account up to that slot
CoveredAccounts(m) == {k \in HashKeys : m # <<>> /\ k <= m[1]}

CoveredStorage(m) ==
    {p \in HashKeys \X HashKeys :
        /\ m # <<>>
        /\ \/ p[1] < m[1]
           \/ Len(m) = 2 /\ p[1] = m[1] /\ p[2] <= m[2]}

\* C30 -- crash consistency: at every point the database as persisted, the
\* flat state with the generator record written in the same batch, agrees
\* with the trie on everything the persisted marker covers.
C30_PersistedAgreesBelowMarker ==
    (gen.pc # "new" /\ ~journalGen.done) =>
        AgreesOn(diskdb, trie, CoveredAccounts(journalGen.marker),
                 CoveredStorage(journalGen.marker))

\* A step in which a batch write has failed: the generator, in a callback or
\* after the main loop, comes to wait for an abort request
WriteFailed == gen.pc \in {"onAccount", "onStorage", "complete"} /\ gen'.pc = "failed"

C32_PrepareReturns ==
    dlast.op = "Prepare" =>
        /\ dlast.ret = dlast.id
        /\ layers[dlast.id].lock = ""
        /\ layers[dlast.id].cumulative =
               [nil |-> FALSE, bits |-> UNION {layers[l].diffed : l \in ChainSet(dlast.id)}]

\* What a read may give once a flatten has started: what it gave before, or
\* the stale error
ReadKept(before, after) == after = before \/ after = Result(0, ErrSnapshotStale)

\* C33 -- a read that runs along with a flatten never sees a merge half done
\* or its outcome through a layer that is not stale: over every locked
\* section of a flatten, the walk from any layer gives for every account and
\* every slot what it gave before the section, or fails with ErrSnapshotStale.
C33_ReadsSeeNoMerge ==
    [][\A id \in Handles :
           /\ \A h \in AccountHashes :
                  ReadKept(accountRLP(Heap, id, h), accountRLP(Heap', id, h))
           /\ \A p \in AccountHashes \X SlotHashes :
                  ReadKept(storage(Heap, id, p[1], p[2]), storage(Heap', id, p[1], p[2]))]_vars

\* C34 -- AccountList on any diff layer, a layer returned by flatten
\* included, returns the keys of the layer's accountData in ascending order,
\* on the first call and on every later one.
C34_AccountListIsKeys ==
    dlast.op = "AccountList" =>
        layers[dlast.id].accountList =
            [nil |-> FALSE, list |-> SortedSeq(DOMAIN AccountDataOf(Heap, dlast.id))]

\* The layer was made by newDiffLayer or Update, not by flatten: it is the
\* first owner of its maps
MadeByUpdate(id) ==
    \A l \in Handles : layers[l].accountData = layers[id].accountData => l >= id

\* C35 -- StorageList(a) on a layer made by newDiffLayer or Update succeeds
\* and returns and memoises the slot hashes of storageData[a] in ascending
\* order, none for an account with no or a nil inner map.
C35_StorageListIsSlots ==
    (dlast.op = "StorageList" /\ MadeByUpdate(dlast.id)) =>
        /\ dpanic = ""
        /\ StorageListOf(Heap, dlast.id, dlast.ret) =
               [nil |-> FALSE, list |-> SortedSeq(DOMAIN SlotsOf(Heap, dlast.id, dlast.ret))]

\* The StateDB after scopedJournal.revert of the top scope
TopReverted == ScopedRevert(Last(j.entries), [s |-> s, dirties |-> j.dirties, panic |-> ""])

\* scopedJournal.revert of the top scope returns and leaves every storage
\* slot and every transient slot with the value it had when the scope began
SlotsRestored ==
    /\ Depth > 0
    /\ TopReverted.panic = ""
    /\ \A a \in DOMAIN Last(saved).stateObjects :
           /\ Has(TopReverted.s.stateObjects, a)
           /\ TopReverted.s.stateObjects[a].storage = Last(saved).stateObjects[a].storage
    /\ TopReverted.s.transientStorage = Last(saved).transientStorage

\* C36 -- journalSetState and journalSetTransientState keep the first
\* previous value of a slot in a scope: the revert of a scope that Snapshot
\* has just opened restores every slot, and a write of a storage slot or of a
\* transient slot journalled in the scope keeps it so, however often the slot
\* is written.
C36_SlotsRestored ==
    [][/\ (jlast'.op = "Snapshot" /\ jops' # jops) => SlotsRestored'
       /\ (/\ jlast'.op \in {"JournalSetState", "JournalSetTransientState"}
           /\ jops' # jops /\ jpanic' = ""
           /\ SlotsRestored) => SlotsRestored']_vars

\* C36 witness: four operations have left two scopes, the lower one empty and
\* the upper one holding nothing but the first previous value of one slot,
\* which now holds a third value: the slot was written twice in the scope
C36_Witness ==
    /\ jpanic = "" /\ jops = 4 /\ Depth = 2
    /\ j.entries[1] = newScopedJournal
    /\ j.entries[2] = [newScopedJournal EXCEPT !.storageChanges = (<<"a1", "k1">> :> 0)]
    /\ s.stateObjects["a1"].storage["k1"] = 2
    /\ SlotsRestored

\* The scope sc holds the creation of addr and a storage change of addr
CreatedWithSlot(sc, addr) ==
    /\ ~sc.accountChanges.nil
    /\ Has(sc.accountChanges.m, addr)
    /\ sc.accountChanges.m[addr] = Tombstone
    /\ \E key \in Keys : <<addr, key>> \in DOMAIN sc.storageChanges

RECURSIVE BigEndian(_)
BigEndian(b) == IF b = <<>> THEN 0 ELSE 256 * BigEndian(SubSeq(b, 1, Len(b) - 1)) + b[Len(b)]

\* C38 -- increaseKey(k) returns nil exactly when every byte of k is 0xff,
\* the empty and the nil key included, and else a key of the length of k
\* that is k plus one as a big-endian unsigned integer.
C38_IncreaseKeySuccessor ==
    ik.called =>
        /\ ik.ret.nil <=> \A i \in 1..Len(ik.arg.b) : ik.arg.b[i] = 255
        /\ ~ik.ret.nil =>
               /\ Len(ik.ret.b) = Len(ik.arg.b)
               /\ BigEndian(ik.ret.b) = BigEndian(ik.arg.b) + 1

\* C38 witness: an increment that carries across two bytes
C38_Witness ==
    /\ ik.called
    /\ ik.arg = Slice(<<1, 255, 255>>)
    /\ ik.ret = Slice(<<2, 0, 0>>)

\* The positions of c that hold operand bytes of a PUSH1 .. PUSH32, found by
\* decoding c instruction by instruction from position 0
Operands(c) ==
    LET RECURSIVE Dec(_, _)
        Dec(p, acc) ==
            IF p >= Len(c) THEN acc
            ELSE LET op == c[p + 1]
                 IN IF op >= PUSH1 /\ op <= PUSH32
                    THEN Dec(p + 1 + (op - PUSH1 + 1),
                             acc \cup {q \in (p + 1)..(p + (op - PUSH1 + 1)) : q < Len(c)})
                    ELSE Dec(p + 1, acc)
    IN Dec(0, {})

\* C39 -- in the vector codeBitmap returns, a position below len(code) is
\* marked as data (codeSegment false) exactly when it holds an operand byte
\* of a PUSH1 .. PUSH32 met by decoding from position 0; every opcode
\* position is left as code, for every width and alignment of the PUSH.
C39_BitmapMarksOperands ==
    bstat = "returned" =>
        \A pos \in 0..(Len(bcode) - 1) : codeSegment(bvec, pos) <=> pos \notin Operands(bcode)

\* C39 witness: a PUSH9 at position 5 with its nine operand bytes, each of
\* them the byte of a PUSH2, and two instructions after it
C39_Witness ==
    /\ bstat = "returned"
    /\ bcode = Fill(5, STOP) \o <<PUSH1 + 8>> \o Fill(9, PUSH1 + 1) \o <<PUSH1, STOP>>
    /\ Operands(bcode) = 6..14 \cup {16}
    /\ \A pos \in 0..16 : codeSegment(bvec, pos) <=> pos \notin Operands(bcode)

\* C40 -- codeBitmap never indexes its vector of len(code)/8+1+4 bytes out of
\* range, whatever the code, a PUSH32 as the last byte included.
C40_BitmapInRange ==
    /\ bpanic = ""
    /\ bstat # "panicked"

\* C40 witness: the code ends with a PUSH32 without operand, and the last
\* byte of the vector has been written to
C40_Witness ==
    /\ bstat = "returned"
    /\ bcode = Fill(6, STOP) \o <<PUSH32>>
    /\ Len(bvec) = 5
    /\ bvec[5] = 254

====
